---------------------------- MODULE Spec2Model ----------------------------
(***************************************************************************)
(* State-machine model of the weekly class-timetable builder               *)
(* (ScheduleGenerator, src/schedule_generator.py) with its configuration   *)
(* (src/config.py) and its driver loop (src/excel_exporter.py).            *)
(* Further specifications model the seating allocator of one room         *)
(* (src/seating_arrangement.py, SeatSpec) and the exam calendar            *)
(* (src/exam_scheduler.py, ExamSpec).                                      *)
(*                                                                         *)
(* Dictionaries of the generator are functions whose DOMAIN is the set of  *)
(* keys present; nested dictionaries are flattened to tuple keys.  Lists   *)
(* are sequences.  A time slot is its 1-based index in TEACHING_SLOTS.     *)
(* random.choice / random.shuffle are nondeterministic choices.            *)
(***************************************************************************)
EXTENDS Integers, Sequences, FiniteSets, TLC

(***************************************************************************)
(* Bounds of the model                                                     *)
(***************************************************************************)
\* Number of week days explored (the first MaxDays entries of DAYS).
MaxDays == 2
\* Attempt budget of every bounded random search (the source uses 200, 500,
\* 1000 and 2000; the searches only compare the counter with the budget).
MaxAttempts == 2
\* Number of lecture start slots explored in the scenario run (the valid
\* starts that end closest to the lunch break).
MaxStarts == 1

(***************************************************************************)
(* config.py                                                               *)
(***************************************************************************)
DEPARTMENTS == <<"CSE-A", "CSE-B", "DSAI", "ECE">>
PRE_MID == "Pre-Mid"
POST_MID == "Post-Mid"
MINOR_SUBJECT == "Minor"
DAYS == <<"MON", "TUE", "WED", "THU", "FRI">>

\* TEACHING_SLOTS as <<start, end>> in minutes after midnight.
TEACHING_SLOTS ==
  << <<450, 480>>, <<480, 510>>,
     <<540, 570>>, <<570, 600>>, <<600, 630>>,
     <<630, 660>>, <<660, 690>>, <<690, 720>>,
     <<720, 750>>, <<750, 780>>,
     <<780, 810>>, <<810, 840>>,
     <<840, 870>>, <<870, 900>>,
     <<900, 930>>, <<930, 960>>,
     <<960, 990>>, <<990, 1020>>,
     <<1020, 1050>>, <<1050, 1080>> >>

\* Index of a slot label in TEACHING_SLOTS, by its start minute.
SlotAt(start) == CHOOSE i \in 1..Len(TEACHING_SLOTS) : TEACHING_SLOTS[i][1] = start

LUNCH_SLOTS == <<SlotAt(780), SlotAt(810)>>
MINOR_SLOTS == <<SlotAt(450), SlotAt(480)>>

LECTURE_DURATION == 3
TUTORIAL_DURATION == 2
LAB_DURATION == 4
MINOR_DURATION == 2
MINOR_CLASSES_PER_WEEK == 2

(***************************************************************************)
(* Generic helpers for dictionaries and lists                              *)
(***************************************************************************)
None == "None"
EmptyDict == [x \in {} |-> {}]
Put(d, k, v) == [x \in (DOMAIN d) \cup {k} |-> IF x = k THEN v ELSE d[x]]
Get(d, k, default) == IF k \in DOMAIN d THEN d[k] ELSE default
Range(s) == {s[i] : i \in DOMAIN s}
InSeq(x, s) == \E i \in DOMAIN s : s[i] = x
RECURSIVE Prefix(_, _)
Prefix(s, n) == IF n <= 0 \/ s = <<>> THEN <<>> ELSE <<Head(s)>> \o Prefix(Tail(s), n - 1)

(***************************************************************************)
(* State                                                                   *)
(***************************************************************************)
VARIABLES
  gen,        \* the ScheduleGenerator object (self)
  schedules,  \* the grid returned for, or being built for, each triple
  todo,       \* builds the exporter has still to request
  cur,        \* the (semester, department, session) being built
  pc,         \* position inside generate_department_schedule
  ci,         \* index of the course being scheduled
  comp,       \* component being scheduled: Lecture, Tutorial or Lab
  loc,        \* local variables of the running search
  warnings,   \* shortfall warnings printed so far
  exam,       \* the run of ExamScheduler.schedule_exams
  seating     \* the run of the seating allocator for one room

vars == <<gen, schedules, todo, cur, pc, ci, comp, loc, warnings, exam, seating>>

(***************************************************************************)
(* Course catalogue and the generator object                               *)
(***************************************************************************)
\* A normalized course row: weekly counts parsed from LTPSC, flags as
\* _schedule_course derives them, session as divide_courses_by_session does.
Course(code, dept, sem, session, L, T, P, elective, combined, students) ==
  [code |-> code, dept |-> dept, sem |-> sem, session |-> session,
   L |-> L, T |-> T, P |-> P, elective |-> elective, combined |-> combined,
   minor |-> FALSE, students |-> students]
Room(name, cap, type) == [name |-> name, cap |-> cap, type |-> type]

\* The scenario catalogue: two departments with one course each, three
\* lectures a week, no tutorial or lab, no elective or combined course.
ScenarioCourses ==
  << Course("SD1", "DSAI", 1, PRE_MID, 3, 0, 0, FALSE, FALSE, 40),
     Course("SE1", "ECE", 1, PRE_MID, 3, 0, 0, FALSE, FALSE, 40) >>

\* The generator was constructed on the scenario catalogue.
ScenarioRun == gen.dfs = ScenarioCourses

\* The week explored: the first MaxDays entries of DAYS, and one day more
\* in the scenario run, which needs a day for each of its weekly lectures.
Days == {DAYS[i] : i \in 1..(IF ScenarioRun THEN MaxDays + 1 ELSE MaxDays)}
Slots == 1..Len(TEACHING_SLOTS)

(***************************************************************************)
(* TimeGrid                                                                *)
(***************************************************************************)
Free == <<"Free", "">>
LunchBreak == <<"LUNCH BREAK", "">>

\* _initialize_schedule
InitializeSchedule ==
  [c \in Days \X Slots |-> IF InSeq(c[2], LUNCH_SLOTS) THEN LunchBreak ELSE Free]

\* _get_consecutive_slots: the slots start .. start+duration-1, or the empty
\* list when they run past the end of TEACHING_SLOTS.
GetConsecutiveSlots(start_slot, duration) ==
  IF start_slot \in Slots /\ (start_slot - 1) + duration <= Len(TEACHING_SLOTS)
  THEN [i \in 1..duration |-> start_slot + i - 1]
  ELSE <<>>

\* _ends_at_thirty: the end time of the last slot reads HH:30.
EndsAtThirty(slots) ==
  IF slots = <<>> THEN FALSE ELSE TEACHING_SLOTS[slots[Len(slots)]][2] % 60 = 30

RegularSlotsWithMinorWindow == {s \in Slots : ~InSeq(s, LUNCH_SLOTS)}

\* regular_slots: teaching slots that are neither minor nor lunch slots.
RegularSlots == {s \in Slots : ~InSeq(s, MINOR_SLOTS) /\ ~InSeq(s, LUNCH_SLOTS)}

\* _get_preferred_start_slots: (preferred, remaining) start slots.
ValidStart(start_slot, duration) ==
  LET slots == GetConsecutiveSlots(start_slot, duration)
  IN  Len(slots) = duration /\ \A i \in DOMAIN slots : slots[i] \in RegularSlots
PreferredStarts(duration) ==
  {s \in RegularSlots : ValidStart(s, duration)
                        /\ EndsAtThirty(GetConsecutiveSlots(s, duration))}
RemainingStarts(duration) ==
  {s \in RegularSlots : ValidStart(s, duration)
                        /\ ~EndsAtThirty(GetConsecutiveSlots(s, duration))}

\* Start slots the random draws are explored over: every valid start, and
\* in the scenario run the MaxStarts valid starts that end closest to the
\* lunch break.
ExploredStarts(duration) ==
  LET all == PreferredStarts(duration) \cup RemainingStarts(duration)
  IN  IF ScenarioRun
      THEN {s \in all : s < LUNCH_SLOTS[1] /\ s + duration + MaxStarts > LUNCH_SLOTS[1]}
      ELSE all

\* all_combinations of the search tiers: preferred combinations followed by
\* the remaining ones; random.choice draws uniformly, so only the set counts.
AllCombinations(duration) == Days \X ExploredStarts(duration)

(***************************************************************************)
(* Room catalogue: ScheduleGenerator.__init__                              *)
(***************************************************************************)
\* Room names of the catalogues in lexicographic (Python string) order.
NameOrder == <<"C004", "C101", "C102", "C103", "H201", "L105", "L106", "c004">>
NameRank(name) == CHOOSE i \in DOMAIN NameOrder : NameOrder[i] = name
\* str.upper() on a room name.
Upper(name) == IF name = "c004" THEN "C004" ELSE name
\* substring tests on the lower-cased room type.
TypeHasLab(room_type) == room_type \in {"lab", "software lab", "hardware lab"}
TypeHasSoftware(room_type) == room_type = "software lab"
TypeHasHardware(room_type) == room_type = "hardware lab"

\* key=lambda x: (x[1], x[0])
CapNameLeq(a, b) ==
  a.cap < b.cap \/ (a.cap = b.cap /\ NameRank(a.name) <= NameRank(b.name))
RECURSIVE SortByCapName(_)
SortByCapName(S) ==
  IF S = {} THEN <<>>
  ELSE LET m == CHOOSE r \in S : \A q \in S : CapNameLeq(r, q)
       IN  <<m>> \o SortByCapName(S \ {m})

\* list.sort(key=lambda x: x[1]): stable insertion by capacity.
RECURSIVE InsertByCap(_, _)
InsertByCap(r, s) ==
  IF s = <<>> THEN <<r>>
  ELSE IF Head(s).cap <= r.cap THEN <<Head(s)>> \o InsertByCap(r, Tail(s))
       ELSE <<r>> \o s
RECURSIVE SortByCap(_)
SortByCap(s) ==
  IF s = <<>> THEN <<>>
  ELSE InsertByCap(s[Len(s)], SortByCap(SubSeq(s, 1, Len(s) - 1)))

\* self.c004_room = None
NoRoom == [name |-> None, cap |-> 0]
\* Rows of the classroom table that are not the combined-only room.
OrdinaryRows(rows) == {[name |-> rows[i].name, cap |-> rows[i].cap, type |-> rows[i].type] :
                          i \in {j \in DOMAIN rows : Upper(rows[j].name) # "C004"}}
Entry(r) == [name |-> r.name, cap |-> r.cap]

\* The room fields of the generator after __init__ on classroom table rows.
LoadRooms(rows) ==
  LET c004s == {i \in DOMAIN rows : Upper(rows[i].name) = "C004"}
      last  == CHOOSE i \in c004s : \A j \in c004s : j <= i
      ord   == OrdinaryRows(rows)
  IN  [ c004_room |-> IF c004s = {} THEN NoRoom ELSE Entry(rows[last]),
        shared_rooms |-> {Upper(rows[i].name) : i \in c004s},
        classrooms |-> SortByCapName({Entry(r) : r \in ord}),
        lab_rooms |-> SortByCapName({Entry(r) : r \in {q \in ord : TypeHasLab(q.type)}}),
        software_lab_rooms |->
          SortByCapName({Entry(r) : r \in {q \in ord : TypeHasLab(q.type) /\ TypeHasSoftware(q.type)}}),
        hardware_lab_rooms |->
          SortByCapName({Entry(r) : r \in {q \in ord : TypeHasLab(q.type) /\ TypeHasHardware(q.type)}}),
        nonlab_rooms |-> SortByCapName({Entry(r) : r \in {q \in ord : ~TypeHasLab(q.type)}}) ]

(***************************************************************************)
(* Occupancy checks and marks                                              *)
(***************************************************************************)
\* _departments_can_share_slots
ShareGroups == {{"CSE-A", "CSE-B"}}
DepartmentsCanShareSlots(dept_a, dept_b) ==
  IF dept_a = "" \/ dept_b = "" THEN FALSE
  ELSE \E group \in ShareGroups : dept_a \in group /\ dept_b \in group

\* _is_time_slot_available_global over semester_global_slots, whose keys
\* <<semester, department, session>> stand for [sem_key][f"{dept}_{session}"].
IsTimeSlotAvailableGlobal(global_slots, day, slots, department, session, semester_id) ==
  \A i \in DOMAIN slots :
    \A k \in DOMAIN global_slots :
      (k[1] = semester_id /\ <<day, slots[i]>> \in global_slots[k]) =>
        ( DepartmentsCanShareSlots(department, k[2])
          \/ (department = k[2] /\ session # k[3])
          \/ department # k[2] )

\* A marking that records the first slot only.
MarkFirstSlotGlobal(self, day, slots, department, session, semester_id) ==
  LET key == <<semester_id, department, session>>
      occ_keys == {<<semester_id, day, slots[i]>> : i \in DOMAIN slots}
  IN  [self EXCEPT
        !.semester_global_slots = Put(@, key, Get(@, key, {}) \cup {<<day, slots[1]>>}),
        !.room_occupancy = [k \in (DOMAIN @) \cup occ_keys |-> Get(@, k, {})]]

\* _mark_slots_busy_global: returns the generator with the slots marked.
MarkSlotsBusyGlobal(self, day, slots, department, session, semester_id) ==
  LET key == <<semester_id, department, session>>
      new == {<<day, slots[i]>> : i \in DOMAIN slots}
      occ_keys == {<<semester_id, day, slots[i]>> : i \in DOMAIN slots}
  IN  [self EXCEPT
        !.semester_global_slots = Put(@, key, Get(@, key, {}) \cup new),
        !.room_occupancy = [k \in (DOMAIN @) \cup occ_keys |-> Get(@, k, {})]]

\* _is_time_slot_available_local
IsTimeSlotAvailableLocal(schedule, day, slots) ==
  \A i \in DOMAIN slots : schedule[<<day, slots[i]>>] = Free

\* _mark_slots_busy_local: the cell text is course code plus suffix; the
\* pair <<course, class_type>> stands for it.
MarkSlotsBusyLocal(schedule, day, slots, course_code, class_type) ==
  [c \in DOMAIN schedule |->
     IF c[1] = day /\ InSeq(c[2], slots) THEN <<course_code, class_type>> ELSE schedule[c]]

(***************************************************************************)
(* RoomAllocator: _assign_room                                             *)
(***************************************************************************)
\* _room_available
RoomAvailable(self, semester_id, day, slot_sequence, room_name) ==
  \A i \in DOMAIN slot_sequence :
    LET occ_key == <<semester_id, day, slot_sequence[i]>>
    IN  ~(occ_key \in DOMAIN self.room_occupancy /\ room_name \in self.room_occupancy[occ_key])

\* A log that records the first slot of the sequence only.
LogBookingsFirstSlot(bookings, semester_id, day, slot_sequence, room_name, department, course_code, session) ==
  IF slot_sequence = <<>> THEN bookings
  ELSE LET k == <<semester_id, day, Head(slot_sequence)>>
           b == [room |-> room_name, dept |-> department, course |-> course_code, session |-> session]
       IN  Put(bookings, k, Append(Get(bookings, k, <<>>), b))

\* _log_room_booking for every slot of the sequence, skipped for shared rooms.
RECURSIVE LogBookings(_, _, _, _, _, _, _, _)
LogBookings(bookings, semester_id, day, slot_sequence, room_name, department, course_code, session) ==
  IF slot_sequence = <<>> THEN bookings
  ELSE LET k == <<semester_id, day, Head(slot_sequence)>>
           b == [room |-> room_name, dept |-> department, course |-> course_code, session |-> session]
       IN  LogBookings(Put(bookings, k, Append(Get(bookings, k, <<>>), b)),
                       semester_id, day, Tail(slot_sequence), room_name, department, course_code, session)

\* _mark_room_usage; target is "assigned_rooms" or "assigned_lab_rooms".
MarkRoomUsage(self, target, day, slot, slot_sequence, room_name, department, course_code, session, semester_id) ==
  LET occ_keys == {<<semester_id, day, slot_sequence[i]>> : i \in DOMAIN slot_sequence}
      allocation_key == <<semester_id, department, session, course_code>>
      occ == [k \in (DOMAIN self.room_occupancy) \cup occ_keys |->
                IF k \in occ_keys THEN Get(self.room_occupancy, k, {}) \cup {room_name}
                ELSE self.room_occupancy[k]]
      logged == IF Upper(room_name) \notin self.shared_rooms
                THEN LogBookings(self.room_bookings, semester_id, day, slot_sequence,
                                 room_name, department, course_code, session)
                ELSE self.room_bookings
      usage == self.room_usage \cup
                 {<<semester_id, day, slot_sequence[i], room_name, department, course_code, session>> :
                    i \in DOMAIN slot_sequence}
      g1 == [self EXCEPT !.room_occupancy = occ, !.room_bookings = logged, !.room_usage = usage]
  IN  IF target = "assigned_rooms"
      THEN [g1 EXCEPT !.assigned_rooms =
              Put(@, allocation_key, Append(Get(@, allocation_key, <<>>), <<day, slot, room_name>>))]
      ELSE [g1 EXCEPT !.assigned_lab_rooms =
              Put(@, allocation_key, Append(Get(@, allocation_key, <<>>), <<day, slot, room_name>>))]

\* Candidate pool of a lab request (RULE 2).
LabPool(self, department) ==
  IF department \in {"CSE-A", "CSE-B", "CSE", "DSAI"} THEN self.software_lab_rooms
  ELSE IF department \in {"ECE"} THEN self.hardware_lab_rooms
  ELSE self.lab_rooms

\* A regular pool that also offers the combined-only room.
RegularPoolWithShared(self) ==
  self.nonlab_rooms \o (IF self.c004_room # NoRoom THEN <<self.c004_room>> ELSE <<>>)

\* Candidate pool of a regular request (RULE 3).
RegularPool(self) == SelectSeq(self.nonlab_rooms, LAMBDA r : Upper(r.name) # "C004")

\* A selection that takes the smallest unoccupied room whatever the class size.
SelectRoomIgnoringSize(self, pool, semester_id, day, slot_sequence, required_capacity) ==
  LET available == SelectSeq(pool, LAMBDA r : RoomAvailable(self, semester_id, day, slot_sequence, r.name))
      sorted == SortByCap(available)
  IN  IF sorted # <<>> THEN sorted[1].name ELSE None

\* Filter to unoccupied rooms, prefer fitting rooms, take the smallest.
SelectRoom(self, pool, semester_id, day, slot_sequence, required_capacity) ==
  LET available == SelectSeq(pool, LAMBDA r : RoomAvailable(self, semester_id, day, slot_sequence, r.name))
      fitting == SelectSeq(available, LAMBDA r : r.cap >= required_capacity)
      chosen == IF required_capacity > 0 /\ fitting # <<>> THEN SortByCap(fitting) ELSE available
      sorted == SortByCap(chosen)
  IN  IF sorted # <<>> THEN sorted[1].name ELSE None

\* A refusal that has already created the course's allocation list.
AssignRoomListFirst(self, day, slot, course_code, department, session, semester_id, is_lab, is_combined, required_capacity, slots) ==
  LET allocation_key == <<semester_id, department, session, course_code>>
  IN  [room |-> None,
       gen |-> [self EXCEPT !.assigned_rooms = Put(@, allocation_key, Get(@, allocation_key, <<>>))]]

\* _assign_room: [room |-> the room name or None, gen |-> the generator after the call].
AssignRoom(self, day, slot, course_code, department, session, semester_id, is_lab, is_combined, required_capacity, slots) ==
  LET slot_sequence == IF slots # <<>> THEN slots ELSE <<slot>>
  IN  IF is_combined
      THEN IF self.c004_room # NoRoom
           THEN IF required_capacity > 0 /\ self.c004_room.cap < required_capacity
                THEN [room |-> None, gen |-> self]
                ELSE [room |-> self.c004_room.name,
                      gen |-> MarkRoomUsage(self, "assigned_rooms", day, slot, slot_sequence,
                                            self.c004_room.name, department, course_code,
                                            session, semester_id)]
           ELSE [room |-> None, gen |-> self]
      ELSE IF is_lab
      THEN LET selected_room == SelectRoom(self, LabPool(self, department), semester_id, day,
                                           slot_sequence, required_capacity)
           IN  IF selected_room # None
               THEN [room |-> selected_room,
                     gen |-> MarkRoomUsage(self, "assigned_lab_rooms", day, slot, slot_sequence,
                                           selected_room, department, course_code,
                                           session, semester_id)]
               ELSE [room |-> None, gen |-> self]
      ELSE LET selected_room == SelectRoom(self, RegularPool(self), semester_id, day,
                                           slot_sequence, required_capacity)
           IN  IF selected_room # None
               THEN [room |-> selected_room,
                     gen |-> MarkRoomUsage(self, "assigned_rooms", day, slot, slot_sequence,
                                           selected_room, department, course_code,
                                           session, semester_id)]
               ELSE [room |-> None, gen |-> self]


(***************************************************************************)
(* The generator object                                                    *)
(***************************************************************************)
\* Courses of one (semester, department, session), in table order.
SessionCourses(dfs, t) ==
  SelectSeq(dfs, LAMBDA c : c.sem = t[1] /\ c.dept = t[2] /\ c.session = t[3])

\* The courses in the order of the course table.
TableOrder(courses) == courses

\* generate_department_schedule: combined and elective courses first.
PriorityOrder(courses) ==
  SelectSeq(courses, LAMBDA c : c.combined \/ c.elective)
    \o SelectSeq(courses, LAMBDA c : ~(c.combined \/ c.elective))

\* The generator after __init__(data_frames).
NewGenerator(courses, rows) ==
  LET r == LoadRooms(rows)
  IN  [ dfs |-> courses,
        c004_room |-> r.c004_room, shared_rooms |-> r.shared_rooms,
        classrooms |-> r.classrooms, lab_rooms |-> r.lab_rooms,
        software_lab_rooms |-> r.software_lab_rooms,
        hardware_lab_rooms |-> r.hardware_lab_rooms,
        nonlab_rooms |-> r.nonlab_rooms,
        semester_global_slots |-> EmptyDict,
        room_occupancy |-> EmptyDict,
        room_bookings |-> EmptyDict,
        semester_minor_slots |-> EmptyDict,
        semester_elective_slots |-> EmptyDict,
        semester_elective_tutorial_slots |-> EmptyDict,
        semester_combined_course_slots |-> EmptyDict,
        global_combined_course_slots |-> EmptyDict,
        scheduled_slots |-> EmptyDict,
        scheduled_courses |-> EmptyDict,
        actual_allocations |-> EmptyDict,
        assigned_rooms |-> EmptyDict,
        assigned_lab_rooms |-> EmptyDict,
        \* every _mark_room_usage effect, shared rooms included
        room_usage |-> {} ]

\* export_semester_timetable: per department, Pre-Mid then Post-Mid.
RECURSIVE BuildOrder(_)
BuildOrder(semesters) ==
  IF semesters = <<>> THEN <<>>
  ELSE LET one(d) == << <<Head(semesters), d, PRE_MID>>, <<Head(semesters), d, POST_MID>> >>
       IN  one(DEPARTMENTS[1]) \o one(DEPARTMENTS[2]) \o one(DEPARTMENTS[3])
             \o one(DEPARTMENTS[4]) \o BuildOrder(Tail(semesters))

Dur(component) ==
  IF component = "Lecture" THEN LECTURE_DURATION
  ELSE IF component = "Tutorial" THEN TUTORIAL_DURATION
  ELSE LAB_DURATION
Req(course, component) ==
  IF component = "Lecture" THEN course.L
  ELSE IF component = "Tutorial" THEN course.T
  ELSE course.P

\* _get_combined_group
GetCombinedGroup(dept_label) ==
  IF dept_label \in {"CSE-A", "CSE-B"} THEN "CSE"
  ELSE IF dept_label \in {"DSAI", "ECE"} THEN "DSAI_ECE"
  ELSE None
GroupDepartments(group_key) ==
  SelectSeq(DEPARTMENTS, LAMBDA d : GetCombinedGroup(d) = group_key)

\* [(day, slot) for slot in slots]
DaySlots(day, slots) == [i \in DOMAIN slots |-> <<day, slots[i]>>]

(***************************************************************************)
(* CrossGroupSynchronizer: combined-class tier                             *)
(***************************************************************************)
GlobalCombinedKey(group_key, course_code, component) ==
  <<"GLOBAL", group_key, course_code, component>>
SemesterCombinedKey(semester_id, course_code, component) ==
  <<semester_id, course_code, component>>

\* The slot list _schedule_combined_class reuses, or <<>> when it must search:
\* the global list of the group first, then the semester list.
CombinedAssigned(self, course_code, component, required_count, department, semester_id) ==
  LET group_key == GetCombinedGroup(department)
      glob == Get(self.global_combined_course_slots,
                  GlobalCombinedKey(group_key, course_code, component), <<>>)
      sem  == Get(self.semester_combined_course_slots,
                  SemesterCombinedKey(semester_id, course_code, component), <<>>)
  IN  IF group_key = None THEN <<>>
      ELSE IF glob # <<>> /\ Len(glob) >= required_count THEN glob
      ELSE IF sem # <<>> /\ Len(sem) >= required_count THEN sem
      ELSE <<>>

\* Reuse loop over assigned[:required_count]: every placement is written to
\* the grid and to the global tracker, and the combined room is requested.
RECURSIVE ReuseCombined(_, _, _, _, _, _, _, _, _)
ReuseCombined(st, assigned, course_code, component, duration, department, session, semester_id, required_capacity) ==
  IF assigned = <<>> THEN st
  ELSE LET day   == Head(assigned)[1]
           start == Head(assigned)[2]
           slots == GetConsecutiveSlots(start, duration)
           sch   == MarkSlotsBusyLocal(st.schedule, day, slots, course_code, component)
           g1    == MarkSlotsBusyGlobal(st.gen, day, slots, department, session, semester_id)
           a     == AssignRoom(g1, day, start, course_code, department, session, semester_id,
                               component = "Lab", TRUE, required_capacity, slots)
       IN  ReuseCombined([gen |-> a.gen, schedule |-> sch,
                          scheduled_slots |-> st.scheduled_slots \o DaySlots(day, slots),
                          scheduled_count |-> st.scheduled_count + 1],
                         Tail(assigned), course_code, component, duration, department,
                         session, semester_id, required_capacity)

\* The availability test of _find_combined_slots for one drawn (day, start).
CombinedSlotsAvailable(self, schedule, day, start_slot, duration, department, session, semester_id) ==
  LET group_key == GetCombinedGroup(department)
      slots == SelectSeq(GetConsecutiveSlots(start_slot, duration), LAMBDA x : x \in RegularSlots)
      depts == GroupDepartments(group_key)
  IN  /\ Len(slots) = duration
      /\ \A i \in DOMAIN depts :
           /\ IsTimeSlotAvailableLocal(schedule, day, slots)
           /\ IsTimeSlotAvailableGlobal(self.semester_global_slots, day, slots, depts[i],
                                        session, semester_id)

RECURSIVE MarkGroupGlobal(_, _, _, _, _, _)
MarkGroupGlobal(self, depts, day, slots, session, semester_id) ==
  IF depts = <<>> THEN self
  ELSE MarkGroupGlobal(MarkSlotsBusyGlobal(self, day, slots, Head(depts), session, semester_id),
                       Tail(depts), day, slots, session, semester_id)

\* One pass of the search loop of _schedule_combined_class after
\* _find_combined_slots returned (day, start_slot).
PlaceCombined(self, schedule, day, start_slot, course_code, component, duration, department, session, semester_id, required_capacity) ==
  LET group_key == GetCombinedGroup(department)
      slots == GetConsecutiveSlots(start_slot, duration)
      a  == AssignRoom(self, day, start_slot, course_code, department, session, semester_id,
                       component = "Lab", TRUE, required_capacity, slots)
      g1 == MarkGroupGlobal(a.gen, GroupDepartments(group_key), day, slots, session, semester_id)
      gk == GlobalCombinedKey(group_key, course_code, component)
      sk == SemesterCombinedKey(semester_id, course_code, component)
      g2 == IF group_key = None THEN g1
            ELSE [g1 EXCEPT
                    !.global_combined_course_slots =
                       Put(@, gk, Append(Get(@, gk, <<>>), <<day, start_slot>>)),
                    !.semester_combined_course_slots =
                       Put(@, sk, Append(Get(@, sk, <<>>), <<day, start_slot>>))]
  IN  IF a.room # None
      THEN [room |-> a.room, gen |-> g2,
            schedule |-> MarkSlotsBusyLocal(schedule, day, slots, course_code, component),
            slots |-> DaySlots(day, slots)]
      ELSE [room |-> None, gen |-> self, schedule |-> schedule, slots |-> <<>>]

(***************************************************************************)
(* CrossGroupSynchronizer: elective tier                                   *)
(***************************************************************************)
ElectiveDict(self, component) ==
  IF component = "Lecture" THEN self.semester_elective_slots
  ELSE self.semester_elective_tutorial_slots
WithElectiveDict(self, component, d) ==
  IF component = "Lecture" THEN [self EXCEPT !.semester_elective_slots = d]
  ELSE [self EXCEPT !.semester_elective_tutorial_slots = d]
CommonElectiveKey(semester_id, component) ==
  IF component = "Lecture" THEN <<semester_id, "ALL_ELECTIVES">>
  ELSE <<semester_id, "ALL_ELECTIVE_TUTORIALS">>
ElectiveKey(semester_id, course_code, component) ==
  IF component = "Lecture" THEN <<semester_id, course_code>>
  ELSE <<semester_id, course_code, "Tutorial">>

\* The loop "for day, start in assigned" of the two reuse branches.
RECURSIVE MarkElectiveSlots(_, _, _, _, _, _, _, _)
MarkElectiveSlots(st, assigned, course_code, component, department, session, semester_id, avoid_days) ==
  IF assigned = <<>> THEN st
  ELSE LET day   == Head(assigned)[1]
           slots == GetConsecutiveSlots(Head(assigned)[2], Dur(component))
           nxt   == IF day \in avoid_days THEN st
                    ELSE [gen |-> MarkSlotsBusyGlobal(st.gen, day, slots, department, session,
                                                     semester_id),
                          schedule |-> MarkSlotsBusyLocal(st.schedule, day, slots, course_code,
                                                          component),
                          scheduled_slots |-> st.scheduled_slots \o DaySlots(day, slots)]
       IN  MarkElectiveSlots(nxt, Tail(assigned), course_code, component, department, session,
                             semester_id, avoid_days)

\* TRUE when _schedule_elective_classes / _schedule_elective_tutorials reuses
\* stored slots instead of searching.
ElectiveStored(self, course_code, component, semester_id) ==
  \/ CommonElectiveKey(semester_id, component) \in DOMAIN ElectiveDict(self, component)
  \/ ElectiveKey(semester_id, course_code, component) \in DOMAIN ElectiveDict(self, component)

\* The two reuse branches: common slots, else this course's slots promoted.
ReuseElective(self, schedule, course_code, component, department, session, semester_id, avoid_days) ==
  LET d  == ElectiveDict(self, component)
      ck == CommonElectiveKey(semester_id, component)
      ek == ElectiveKey(semester_id, course_code, component)
      st0(g) == [gen |-> g, schedule |-> schedule, scheduled_slots |-> <<>>]
  IN  IF ck \in DOMAIN d
      THEN LET st == MarkElectiveSlots(st0(self), d[ck], course_code, component, department,
                                       session, semester_id, avoid_days)
           IN  [st EXCEPT !.gen = WithElectiveDict(@, component,
                                                   Put(ElectiveDict(@, component), ek, d[ck]))]
      ELSE MarkElectiveSlots(st0(WithElectiveDict(self, component, Put(d, ck, d[ek]))),
                             d[ek], course_code, component, department, session,
                             semester_id, avoid_days)

(***************************************************************************)
(* Catalogues explored                                                     *)
(***************************************************************************)
FullRooms ==
  << Room("C004", 240, "classroom"), Room("C101", 60, "classroom"),
     Room("C102", 120, "classroom"), Room("L105", 40, "software lab"),
     Room("H201", 40, "hardware lab") >>

Catalogues ==
  << \* semester 3: electives and a combined course of the CSE group
     [ semesters |-> <<3>>, rooms |-> FullRooms,
       courses |-> << Course("EL1", "CSE-A", 3, PRE_MID, 1, 0, 0, TRUE, FALSE, 40),
                      Course("CC1", "CSE-A", 3, POST_MID, 1, 0, 0, FALSE, TRUE, 100),
                      Course("EL2", "CSE-A", 3, POST_MID, 1, 0, 0, TRUE, FALSE, 40),
                      Course("EL3", "CSE-B", 3, POST_MID, 1, 0, 0, TRUE, FALSE, 40),
                      Course("CC1", "CSE-B", 3, POST_MID, 1, 0, 0, FALSE, TRUE, 100) >> ],
     \* semester 1: one combined course in each sharing group
     [ semesters |-> <<1>>,
       rooms |-> << Room("c004", 240, "classroom"), Room("C101", 60, "classroom") >>,
       courses |-> << Course("CA1", "CSE-A", 1, PRE_MID, 1, 0, 0, FALSE, TRUE, 100),
                      Course("CD1", "DSAI", 1, PRE_MID, 1, 0, 0, FALSE, TRUE, 100) >> ],
     \* semester 1: regular courses competing for one classroom, and a lab
     [ semesters |-> <<1>>,
       rooms |-> << Room("C004", 240, "classroom"), Room("C101", 60, "classroom"),
                    Room("L105", 40, "software lab"), Room("H201", 40, "hardware lab") >>,
       courses |-> << Course("RG2", "DSAI", 1, PRE_MID, 1, 0, 0, FALSE, FALSE, 50),
                      Course("RG1", "ECE", 1, PRE_MID, 1, 0, 1, FALSE, FALSE, 30) >> ],
     \* semester 1: electives with different weekly counts
     [ semesters |-> <<1>>, rooms |-> FullRooms,
       courses |-> << Course("EA1", "CSE-A", 1, PRE_MID, 2, 0, 0, TRUE, FALSE, 40),
                      Course("EB1", "CSE-B", 1, PRE_MID, 1, 0, 0, TRUE, FALSE, 40),
                      Course("EC1", "DSAI", 1, PRE_MID, 3, 0, 0, TRUE, FALSE, 40) >> ],
     \* semester 1: a combined course and no combined-only room
     [ semesters |-> <<1>>,
       rooms |-> << Room("C101", 60, "classroom"), Room("C102", 120, "classroom") >>,
       courses |-> << Course("CA1", "CSE-A", 1, PRE_MID, 1, 0, 0, FALSE, TRUE, 100) >> ],
     \* semester 1: a combined course larger than the combined-only room
     [ semesters |-> <<1>>,
       rooms |-> << Room("C004", 50, "classroom"), Room("C101", 60, "classroom") >>,
       courses |-> << Course("CA1", "CSE-A", 1, PRE_MID, 1, 0, 0, FALSE, TRUE, 100) >> ],
     \* semester 1: an elective placed before a combined course
     [ semesters |-> <<1>>, rooms |-> FullRooms,
       courses |-> << Course("ED1", "DSAI", 1, PRE_MID, 1, 0, 0, TRUE, FALSE, 40),
                      Course("CD1", "DSAI", 1, PRE_MID, 1, 0, 0, FALSE, TRUE, 100) >> ],
     \* semester 1: elective tutorials in both sessions of one department
     [ semesters |-> <<1>>, rooms |-> FullRooms,
       courses |-> << Course("ET1", "ECE", 1, PRE_MID, 0, 1, 0, TRUE, FALSE, 40),
                      Course("RT1", "ECE", 1, POST_MID, 0, 1, 0, FALSE, FALSE, 40),
                      Course("ET2", "ECE", 1, POST_MID, 0, 1, 0, TRUE, FALSE, 40) >> ],
     \* semester 1: an elective with a weekly lab
     [ semesters |-> <<1>>, rooms |-> FullRooms,
       courses |-> << Course("EP1", "ECE", 1, PRE_MID, 0, 0, 1, TRUE, FALSE, 30) >> ],
     \* semester 1: rooms of equal capacity, a room too small for the class,
     \* and labs that are all too small
     [ semesters |-> <<1>>,
       rooms |-> << Room("C004", 240, "classroom"), Room("C102", 60, "classroom"),
                    Room("C101", 60, "classroom"), Room("C103", 40, "classroom"),
                    Room("L106", 40, "software lab"), Room("L105", 40, "software lab"),
                    Room("H201", 40, "hardware lab") >>,
       courses |-> << Course("RA1", "DSAI", 1, PRE_MID, 0, 0, 1, FALSE, FALSE, 50),
                      Course("RB1", "ECE", 1, PRE_MID, 1, 0, 0, FALSE, FALSE, 50) >> ],
     \* semesters 1 and 3: the same combined course code in both
     [ semesters |-> <<1, 3>>, rooms |-> FullRooms,
       courses |-> << Course("CA1", "CSE-A", 1, PRE_MID, 1, 0, 0, FALSE, TRUE, 100),
                      Course("CA1", "CSE-A", 3, PRE_MID, 1, 0, 0, FALSE, TRUE, 100) >> ],
     \* semester 1: an elective, then an elective that is also combined
     [ semesters |-> <<1>>, rooms |-> FullRooms,
       courses |-> << Course("EA1", "DSAI", 1, PRE_MID, 1, 0, 0, TRUE, FALSE, 40),
                      Course("EC1", "ECE", 1, PRE_MID, 1, 0, 0, TRUE, TRUE, 100) >> ] >>

NoBuild == <<0, "", "">>
\* No exam scheduling and no seating run is in progress.
NoExam == [pc |-> "off"]
NoSeating == [pc |-> "off"]
ZeroCounts == [Lecture |-> 0, Tutorial |-> 0, Lab |-> 0]
InitLoc ==
  [ attempts |-> 0, scheduled_slots |-> <<>>, used_days |-> {}, avoid_days |-> {},
    all_combinations |-> {}, assigned |-> <<>>, scheduled_count |-> 0,
    combined_slots |-> <<>>, success_counts |-> ZeroCounts, course_slots |-> <<>> ]
\* Fresh locals of a search function; what _schedule_course keeps is carried.
FreshLoc(l) ==
  [InitLoc EXCEPT !.success_counts = l.success_counts, !.course_slots = l.course_slots]

Init ==
  \E i \in DOMAIN Catalogues :
    /\ gen = NewGenerator(Catalogues[i].courses, Catalogues[i].rooms)
    /\ todo = BuildOrder(Catalogues[i].semesters)
    /\ schedules = EmptyDict
    /\ cur = NoBuild
    /\ pc = "idle"
    /\ ci = 0
    /\ comp = ""
    /\ loc = InitLoc
    /\ warnings = {}
    /\ exam = NoExam
    /\ seating = NoSeating

\* Courses of the running build in scheduling order, and the current one.
Order == PriorityOrder(SessionCourses(gen.dfs, cur))
CurCourse == Order[ci]
Schedule == schedules[cur]
AllocationKey == <<cur[1], cur[2], cur[3], CurCourse.code>>

(***************************************************************************)
(* generate_department_schedule                                            *)
(***************************************************************************)
NextComp(component) ==
  IF component = "Lecture" THEN "Tutorial" ELSE "Lab"
NextPcReturning(component) == "idle"

\* Where _schedule_course goes on after a component: the next component, or
\* the end of the course after the labs.
NextPc(component) ==
  IF component = "Lab" THEN "course_end" ELSE "comp"

\* _schedule_course on the return of a component: the achieved count is the
\* number of returned (day, slot) pairs divided by the component's duration.
ComponentDone(l, component, slots) ==
  [InitLoc EXCEPT
     !.success_counts = [l.success_counts EXCEPT ![component] = Len(slots) \div Dur(component)],
     !.course_slots = l.course_slots \o slots]

\* Locals at the start of the regular tier and of the elective search.
SearchLoc(l, component) ==
  [FreshLoc(l) EXCEPT !.all_combinations = AllCombinations(Dur(component))]

\* The printed shortfall warning.
Warning(t, course_code, component, achieved, requested) ==
  <<t[1], t[2], t[3], course_code, component, achieved, requested>>

\* Valid minor start slots of _schedule_minor_classes.
MinorStarts ==
  {s \in Range(MINOR_SLOTS) :
     LET seq == GetConsecutiveSlots(s, MINOR_DURATION)
     IN  Len(seq) = MINOR_DURATION /\ \A i \in DOMAIN seq : InSeq(seq[i], MINOR_SLOTS)}

\* Minor slots already assigned for the semester are written verbatim.
RECURSIVE ReuseMinor(_, _, _, _, _)
ReuseMinor(st, assigned, department, session, semester_id) ==
  IF assigned = <<>> THEN st
  ELSE LET day   == Head(assigned)[1]
           slots == GetConsecutiveSlots(Head(assigned)[2], MINOR_DURATION)
       IN  ReuseMinor([gen |-> MarkSlotsBusyGlobal(st.gen, day, slots, department, session,
                                                   semester_id),
                       schedule |-> MarkSlotsBusyLocal(st.schedule, day, slots, MINOR_SUBJECT,
                                                       "Minor")],
                      Tail(assigned), department, session, semester_id)

MinorSkippedNever(semester_id) == FALSE

\* _schedule_minor_classes returns at once for semester 1.
MinorSkipped(semester_id) == semester_id = 1

\* The exporter requests the next build; the build runs up to the minor search.
StartBuild ==
  /\ pc = "idle"
  /\ todo # <<>>
  /\ LET t == Head(todo)
         courses == SessionCourses(gen.dfs, t)
     IN  /\ todo' = Tail(todo)
         /\ UNCHANGED warnings
         /\ IF courses = <<>>
            THEN /\ schedules' = Put(schedules, t, InitializeSchedule)
                 /\ UNCHANGED <<gen, cur, pc, ci, comp, loc>>
            ELSE /\ cur' = t
                 /\ ci' = 1
                 /\ comp' = "Lecture"
                 /\ loc' = InitLoc
                 /\ IF MinorSkipped(t[1]) \/ MinorStarts = {}
                    THEN /\ schedules' = Put(schedules, t, InitializeSchedule)
                         /\ pc' = "comp"
                         /\ gen' = gen
                    ELSE IF t[1] \in DOMAIN gen.semester_minor_slots
                    THEN LET st == ReuseMinor([gen |-> gen, schedule |-> InitializeSchedule],
                                              gen.semester_minor_slots[t[1]], t[2], t[3], t[1])
                         IN  /\ schedules' = Put(schedules, t, st.schedule)
                             /\ gen' = st.gen
                             /\ pc' = "comp"
                    ELSE /\ schedules' = Put(schedules, t, InitializeSchedule)
                         /\ pc' = "minor"
                         /\ gen' = gen
  /\ UNCHANGED <<exam, seating>>

\* One pass of the search loop of _schedule_minor_classes.
MinorAttempt ==
  /\ pc = "minor"
  /\ \E day \in Days, start \in MinorStarts :
       LET slots == GetConsecutiveSlots(start, MINOR_DURATION)
           ok == /\ Len(slots) = MINOR_DURATION
                 /\ IsTimeSlotAvailableLocal(Schedule, day, slots)
                 /\ IsTimeSlotAvailableGlobal(gen.semester_global_slots, day, slots,
                                              cur[2], cur[3], cur[1])
           sch == IF ok THEN MarkSlotsBusyLocal(Schedule, day, slots, MINOR_SUBJECT, "Minor")
                  ELSE Schedule
           g1 == IF ok THEN MarkSlotsBusyGlobal(gen, day, slots, cur[2], cur[3], cur[1])
                 ELSE gen
           assigned == IF ok THEN Append(loc.assigned, <<day, start>>) ELSE loc.assigned
           attempts == loc.attempts + 1
           again == Len(assigned) < MINOR_CLASSES_PER_WEEK /\ attempts < MaxAttempts
       IN  /\ schedules' = Put(schedules, cur, sch)
           /\ IF again
              THEN /\ gen' = g1
                   /\ pc' = "minor"
                   /\ loc' = [loc EXCEPT !.attempts = attempts, !.assigned = assigned]
              ELSE /\ gen' = IF assigned # <<>>
                             THEN [g1 EXCEPT !.semester_minor_slots = Put(@, cur[1], assigned)]
                             ELSE g1
                   /\ pc' = "comp"
                   /\ loc' = InitLoc
  /\ UNCHANGED <<todo, cur, ci, comp, warnings, exam, seating>>

\* _schedule_course calls the scheduler of the next component, which enters
\* its first applicable tier; a component with weekly count 0 is skipped.
BeginComponent ==
  /\ pc = "comp"
  /\ IF Req(CurCourse, comp) = 0
     THEN /\ pc' = NextPc(comp)
          /\ comp' = NextComp(comp)
          /\ loc' = loc
     ELSE /\ comp' = comp
          /\ IF CurCourse.combined
             THEN pc' = "combined" /\ loc' = FreshLoc(loc)
             ELSE IF CurCourse.elective /\ comp # "Lab"
             THEN pc' = "elective" /\ loc' = FreshLoc(loc)
             ELSE pc' = "regular" /\ loc' = SearchLoc(loc, comp)
  /\ UNCHANGED <<gen, schedules, todo, cur, ci, warnings, exam, seating>>

\* Combined tier: enough synchronized slots exist and are reused.
CombinedReuse ==
  /\ pc = "combined"
  /\ LET c == CurCourse
         n == Req(c, comp)
         assigned == CombinedAssigned(gen, c.code, comp, n, cur[2], cur[1])
         st == ReuseCombined([gen |-> gen, schedule |-> Schedule,
                              scheduled_slots |-> <<>>, scheduled_count |-> 0],
                             Prefix(assigned, n), c.code, comp, Dur(comp),
                             cur[2], cur[3], cur[1], c.students)
     IN  /\ assigned # <<>>
         /\ gen' = st.gen
         /\ schedules' = Put(schedules, cur, st.schedule)
         /\ IF st.scheduled_count >= n
            THEN /\ loc' = ComponentDone(loc, comp, st.scheduled_slots)
                 /\ pc' = NextPc(comp)
                 /\ comp' = NextComp(comp)
            ELSE /\ comp' = comp
                 /\ IF c.elective /\ comp # "Lab"
                    THEN pc' = "elective" /\ loc' = FreshLoc(loc)
                    ELSE pc' = "regular" /\ loc' = SearchLoc(loc, comp)
  /\ UNCHANGED <<todo, cur, ci, warnings, exam, seating>>

\* Combined tier: no stored slots, the search loop is entered.
CombinedFresh ==
  /\ pc = "combined"
  /\ CombinedAssigned(gen, CurCourse.code, comp, Req(CurCourse, comp), cur[2], cur[1]) = <<>>
  /\ pc' = "comb_find"
  /\ loc' = FreshLoc(loc)
  /\ UNCHANGED <<gen, schedules, todo, cur, ci, comp, warnings, exam, seating>>

\* One attempt of _find_combined_slots.  An empty return ends the search
\* loop of _schedule_combined_class, and the component falls to the next tier.
FindCombinedAttempt ==
  /\ pc = "comb_find"
  /\ LET c == CurCourse
         starts == PreferredStarts(Dur(comp)) \cup RemainingStarts(Dur(comp))
         giveup == /\ comp' = comp
                   /\ IF c.elective /\ comp # "Lab"
                      THEN pc' = "elective" /\ loc' = FreshLoc(loc)
                      ELSE pc' = "regular" /\ loc' = SearchLoc(loc, comp)
     IN  IF GetCombinedGroup(cur[2]) = None \/ starts = {}
         THEN giveup
         ELSE \E day \in Days \ loc.avoid_days, start_slot \in starts :
                IF CombinedSlotsAvailable(gen, Schedule, day, start_slot, Dur(comp),
                                          cur[2], cur[3], cur[1])
                THEN /\ pc' = "comb_place"
                     /\ comp' = comp
                     /\ loc' = [loc EXCEPT !.attempts = @ + 1,
                                           !.combined_slots = <<day, start_slot>>]
                ELSE IF loc.attempts + 1 < MaxAttempts
                THEN /\ pc' = "comb_find"
                     /\ comp' = comp
                     /\ loc' = [loc EXCEPT !.attempts = @ + 1]
                ELSE giveup
  /\ UNCHANGED <<gen, schedules, todo, cur, ci, warnings, exam, seating>>

\* The rest of one pass of the search loop: request the combined room and,
\* if it is granted, mark and persist the placement; otherwise search again.
CombinedPlace ==
  /\ pc = "comb_place"
  /\ LET c == CurCourse
         n == Req(c, comp)
         p == PlaceCombined(gen, Schedule, loc.combined_slots[1], loc.combined_slots[2],
                            c.code, comp, Dur(comp), cur[2], cur[3], cur[1], c.students)
         count == IF p.room # None THEN loc.scheduled_count + 1 ELSE loc.scheduled_count
         slots == loc.scheduled_slots \o p.slots
     IN  /\ gen' = p.gen
         /\ schedules' = Put(schedules, cur, p.schedule)
         /\ IF count < n
            THEN /\ pc' = "comb_find"
                 /\ comp' = comp
                 /\ loc' = [loc EXCEPT !.attempts = 0, !.combined_slots = <<>>,
                                       !.scheduled_count = count, !.scheduled_slots = slots]
            ELSE /\ loc' = ComponentDone(loc, comp, slots)
                 /\ pc' = NextPc(comp)
                 /\ comp' = NextComp(comp)
  /\ UNCHANGED <<todo, cur, ci, warnings, exam, seating>>

\* Elective tier: slots stored for the semester are reused.
ElectiveReuse ==
  /\ pc = "elective"
  /\ ElectiveStored(gen, CurCourse.code, comp, cur[1])
  /\ LET st == ReuseElective(gen, Schedule, CurCourse.code, comp, cur[2], cur[3], cur[1],
                             loc.avoid_days)
     IN  /\ gen' = st.gen
         /\ schedules' = Put(schedules, cur, st.schedule)
         /\ IF st.scheduled_slots # <<>>
            THEN /\ loc' = ComponentDone(loc, comp, st.scheduled_slots)
                 /\ pc' = NextPc(comp)
                 /\ comp' = NextComp(comp)
            ELSE /\ loc' = SearchLoc(loc, comp)
                 /\ pc' = "regular"
                 /\ comp' = comp
  /\ UNCHANGED <<todo, cur, ci, warnings, exam, seating>>

\* Elective tier: nothing stored yet, the search loop is entered.
ElectiveFresh ==
  /\ pc = "elective"
  /\ ~ElectiveStored(gen, CurCourse.code, comp, cur[1])
  /\ pc' = "elec_search"
  /\ loc' = SearchLoc(loc, comp)
  /\ UNCHANGED <<gen, schedules, todo, cur, ci, comp, warnings, exam, seating>>

\* Candidates of one pass: combinations on days not yet used, else all.
AvailableCombos(l) ==
  LET fresh == {x \in l.all_combinations : x[1] \notin l.used_days /\ x[1] \notin l.avoid_days}
  IN  IF fresh = {} THEN l.all_combinations ELSE fresh

\* The slots of a drawn combination, as the tiers compute them.
ComboSlots(combo, component) ==
  SelectSeq(GetConsecutiveSlots(combo[2], Dur(component)), LAMBDA x : x \in RegularSlots)

\* Locals after a placement was accepted at combo.
Accepted(l, combo, component) ==
  [l EXCEPT !.scheduled_slots = @ \o DaySlots(combo[1], ComboSlots(combo, component)),
            !.assigned = Append(@, combo),
            !.used_days = @ \cup {combo[1]},
            !.avoid_days = @ \cup {combo[1]},
            !.all_combinations = @ \ {combo}]

\* End of the elective search: the slots found become the common slots of
\* the semester; a shortfall is reported; an empty result falls through to
\* the regular tier.
ElectiveExit(g, sch, l) ==
  LET c == CurCourse
      n == Req(c, comp)
      d == ElectiveDict(g, comp)
      g1 == IF l.assigned # <<>>
            THEN WithElectiveDict(g, comp,
                   Put(Put(d, CommonElectiveKey(cur[1], comp), l.assigned),
                       ElectiveKey(cur[1], c.code, comp), l.assigned))
            ELSE g
      achieved == Len(l.scheduled_slots) \div Dur(comp)
  IN  /\ gen' = g1
      /\ schedules' = Put(schedules, cur, sch)
      /\ warnings' = IF achieved < n
                     THEN warnings \cup {Warning(cur, c.code, comp, achieved, n)}
                     ELSE warnings
      /\ IF l.scheduled_slots # <<>>
         THEN /\ loc' = ComponentDone(l, comp, l.scheduled_slots)
              /\ pc' = NextPc(comp)
              /\ comp' = NextComp(comp)
         ELSE /\ loc' = SearchLoc(l, comp)
              /\ pc' = "regular"
              /\ comp' = comp

\* One pass of the search loop of _schedule_elective_classes /
\* _schedule_elective_tutorials.
ElectiveAttempt ==
  /\ pc = "elec_search"
  /\ LET c == CurCourse
         n == Req(c, comp)
         l0 == [loc EXCEPT !.attempts = @ + 1]
     IN  IF AvailableCombos(loc) = {}
         THEN ElectiveExit(gen, Schedule, l0)
         ELSE \E combo \in AvailableCombos(loc) :
                LET slots == ComboSlots(combo, comp)
                    ok == /\ IsTimeSlotAvailableLocal(Schedule, combo[1], slots)
                          /\ IsTimeSlotAvailableGlobal(gen.semester_global_slots, combo[1],
                                                       slots, cur[2], cur[3], cur[1])
                    sch == IF ok THEN MarkSlotsBusyLocal(Schedule, combo[1], slots, c.code, comp)
                           ELSE Schedule
                    g1 == IF ok THEN MarkSlotsBusyGlobal(gen, combo[1], slots, cur[2], cur[3],
                                                         cur[1])
                          ELSE gen
                    l1 == IF ok THEN Accepted(l0, combo, comp) ELSE l0
                IN  IF Len(l1.assigned) < n /\ l1.attempts < MaxAttempts
                    THEN /\ gen' = g1
                         /\ schedules' = Put(schedules, cur, sch)
                         /\ loc' = l1
                         /\ UNCHANGED <<pc, comp, warnings>>
                    ELSE ElectiveExit(g1, sch, l1)
  /\ UNCHANGED <<todo, cur, ci, exam, seating>>

\* End of the regular tier: a shortfall is reported, the slots are returned.
RegularExit(g, sch, l) ==
  LET n == Req(CurCourse, comp)
      achieved == Len(l.scheduled_slots) \div Dur(comp)
  IN  /\ gen' = g
      /\ schedules' = Put(schedules, cur, sch)
      /\ warnings' = IF achieved < n
                     THEN warnings \cup {Warning(cur, CurCourse.code, comp, achieved, n)}
                     ELSE warnings
      /\ loc' = ComponentDone(l, comp, l.scheduled_slots)
      /\ pc' = NextPc(comp)
      /\ comp' = NextComp(comp)

SlotsNeededUnscaled(n, component) == n

\* lectures_per_week * LECTURE_DURATION, and likewise for the other components.
SlotsNeeded(n, component) == n * Dur(component)

\* max_attempts of _schedule_lectures.
max_attempts == 2000

\* Attempt budget of the regular tier: the scenario run, where no attempt
\* fails, keeps the budget of the source.
AttemptLimit == IF ScenarioRun THEN max_attempts ELSE MaxAttempts

\* One pass of the search loop of the regular tier of _schedule_lectures,
\* _schedule_tutorials and _schedule_labs.
RegularAttempt ==
  /\ pc = "regular"
  /\ LET c == CurCourse
         n == Req(c, comp)
         skip_room_assignment == c.elective \/ c.minor
         l0 == [loc EXCEPT !.attempts = @ + 1]
     IN  IF AvailableCombos(loc) = {}
         THEN RegularExit(gen, Schedule, l0)
         ELSE \E combo \in AvailableCombos(loc) :
                LET slots == ComboSlots(combo, comp)
                    slots_available ==
                      /\ IsTimeSlotAvailableLocal(Schedule, combo[1], slots)
                      /\ IsTimeSlotAvailableGlobal(gen.semester_global_slots, combo[1],
                                                   slots, cur[2], cur[3], cur[1])
                    a == IF slots_available /\ ~skip_room_assignment
                         THEN AssignRoom(gen, combo[1], combo[2], c.code, cur[2], cur[3],
                                         cur[1], comp = "Lab", FALSE, c.students, slots)
                         ELSE [room |-> None, gen |-> gen]
                    ok == slots_available /\ (skip_room_assignment \/ a.room # None)
                    sch == IF ok THEN MarkSlotsBusyLocal(Schedule, combo[1], slots, c.code, comp)
                           ELSE Schedule
                    g1 == IF ok THEN MarkSlotsBusyGlobal(a.gen, combo[1], slots, cur[2],
                                                         cur[3], cur[1])
                          ELSE a.gen
                    l1 == IF ok THEN [Accepted(l0, combo, comp) EXCEPT !.assigned = <<>>]
                          ELSE l0
                IN  IF Len(l1.scheduled_slots) < SlotsNeeded(n, comp) /\ l1.attempts < AttemptLimit
                    THEN /\ gen' = g1
                         /\ schedules' = Put(schedules, cur, sch)
                         /\ loc' = l1
                         /\ UNCHANGED <<pc, comp, warnings>>
                    ELSE RegularExit(g1, sch, l1)
  /\ UNCHANGED <<todo, cur, ci, exam, seating>>

\* End of _schedule_course: the audit record of the course is stored; the
\* next course follows, or the build returns its grid.
FinishCourse ==
  /\ pc = "course_end"
  /\ LET c == CurCourse
         key == AllocationKey
         ar == Get(gen.assigned_rooms, key, <<>>)
         alr == Get(gen.assigned_lab_rooms, key, <<>>)
         alloc == [ lectures |-> loc.success_counts["Lecture"],
                    tutorials |-> loc.success_counts["Tutorial"],
                    labs |-> loc.success_counts["Lab"],
                    combined_class |-> c.combined,
                    room |-> IF ar # <<>> THEN ar[1][3] ELSE "",
                    lab_room |-> IF alr # <<>> THEN alr[1][3] ELSE "" ]
     IN  gen' = [gen EXCEPT
                   !.actual_allocations = Put(@, key, alloc),
                   !.scheduled_slots = Put(@, key, Get(@, key, <<>>) \o loc.course_slots),
                   !.scheduled_courses =
                      Put(@, key, Get(@, key, {}) \cup {x[1] : x \in Range(loc.course_slots)})]
  /\ loc' = InitLoc
  /\ IF ci < Len(Order)
     THEN /\ ci' = ci + 1
          /\ pc' = "comp"
          /\ comp' = "Lecture"
          /\ cur' = cur
     ELSE /\ ci' = 0
          /\ pc' = "idle"
          /\ comp' = ""
          /\ cur' = NoBuild
  /\ UNCHANGED <<schedules, todo, warnings, exam, seating>>

Next ==
  \/ StartBuild
  \/ MinorAttempt
  \/ BeginComponent
  \/ CombinedReuse
  \/ CombinedFresh
  \/ FindCombinedAttempt
  \/ CombinedPlace
  \/ ElectiveReuse
  \/ ElectiveFresh
  \/ ElectiveAttempt
  \/ RegularAttempt
  \/ FinishCourse

Spec == Init /\ [][Next]_vars

\* The generator runs sequentially: a build that can take a step takes it.
FairSpec == Spec /\ WF_vars(Next)


(***************************************************************************)
(* Properties of the timetable                                             *)
(***************************************************************************)
\* All requested builds have returned.
Done == pc = "idle" /\ todo = <<>>

\* Cells of a grid that show the course, with the component shown.
Cells(t, course_code) ==
  {<<c[1], c[2], schedules[t][c][2]>> :
     c \in {x \in DOMAIN schedules[t] : schedules[t][x][1] = course_code}}

\* (day, slot) cells of a grid that show a lecture of the course.
LectureCells(t, course_code) ==
  {<<x[1], x[2]>> : x \in {y \in Cells(t, course_code) : y[3] = "Lecture"}}

\* Catalogue row of an audit-trail key <<semester, department, session, code>>.
CourseOf(key) ==
  CHOOSE c \in Range(gen.dfs) :
    c.sem = key[1] /\ c.dept = key[2] /\ c.session = key[3] /\ c.code = key[4]

\* Achieved weekly count of a component in an audit-trail record.
Achieved(alloc, component) ==
  IF component = "Lecture" THEN alloc.lectures
  ELSE IF component = "Tutorial" THEN alloc.tutorials
  ELSE alloc.labs

Components == {"Lecture", "Tutorial", "Lab"}

\* C1: no two courses occupy the same cell of a grid: every step that
\* writes a cell of a grid writes a cell that was Free before the step.
C1_PlacementsOnlyOnFreeCells ==
  [][\A t \in DOMAIN schedules :
       \A c \in DOMAIN schedules[t] :
         schedules'[t][c] # schedules[t][c] => schedules[t][c] = Free]_vars

\* C2: two different uses of one room at the same (semester, day, slot)
\* exist only for the shared combined-only room, and then both serve the
\* same combined group.
C2_RoomBookedOnce ==
  \A u, v \in gen.room_usage :
    (u # v /\ u[1] = v[1] /\ u[2] = v[2] /\ u[3] = v[3] /\ u[4] = v[4]) =>
      /\ Upper(u[4]) \in gen.shared_rooms
      /\ GetCombinedGroup(u[5]) = GetCombinedGroup(v[5])

\* C3: when the combined tier requests its room, assignRoom returns C004
\* only if its capacity covers the registered students and it is unoccupied
\* at every requested slot; otherwise it returns None.
C3_CombinedRoomOnlyWhenFree ==
  pc = "comb_place" =>
    LET day == loc.combined_slots[1]
        start_slot == loc.combined_slots[2]
        slots == GetConsecutiveSlots(start_slot, Dur(comp))
        a == AssignRoom(gen, day, start_slot, CurCourse.code, cur[2], cur[3], cur[1],
                        comp = "Lab", TRUE, CurCourse.students, slots)
    IN  a.room # None =>
          /\ gen.c004_room # NoRoom
          /\ a.room = gen.c004_room.name
          /\ gen.c004_room.cap >= CurCourse.students
          /\ RoomAvailable(gen, cur[1], day, slots, a.room)

\* C4: once all builds have returned, a combined course shows the same
\* cells in the grids of all departments of its sharing group (same
\* semester and session), and every room assigned to it is C004.
C4_CombinedCellsIdentical ==
  Done =>
    \A t1, t2 \in DOMAIN schedules :
      \A i \in DOMAIN SessionCourses(gen.dfs, t1), j \in DOMAIN SessionCourses(gen.dfs, t2) :
        LET c1 == SessionCourses(gen.dfs, t1)[i]
            c2 == SessionCourses(gen.dfs, t2)[j]
        IN  ( /\ t1[1] = t2[1] /\ t1[3] = t2[3] /\ t1[2] # t2[2]
              /\ GetCombinedGroup(t1[2]) = GetCombinedGroup(t2[2])
              /\ c1.combined /\ c2.combined /\ c1.code = c2.code ) =>
            /\ Cells(t1, c1.code) = Cells(t2, c2.code)
            /\ \A x \in Range(Get(gen.assigned_rooms, <<t1[1], t1[2], t1[3], c1.code>>, <<>>)) :
                 Upper(x[3]) = "C004"

\* C5: once all builds have returned, all elective lectures of a semester
\* occupy identical (day, slot) cells across electives, departments and
\* sessions.
C5_ElectiveLecturesIdentical ==
  Done =>
    \A c1, c2 \in Range(gen.dfs) :
      (c1.elective /\ c2.elective /\ c1.sem = c2.sem /\ c1.L > 0 /\ c2.L > 0) =>
        LectureCells(<<c1.sem, c1.dept, c1.session>>, c1.code)
          = LectureCells(<<c2.sem, c2.dept, c2.session>>, c2.code)

\* C6: generate_department_schedule always terminates: every requested
\* build eventually returns, also when C004 is missing or too small.
C6_BuildsTerminate == <>Done

\* C7: the achieved count recorded in the audit trail never exceeds the
\* requested weekly count, for every component.
C7_AchievedAtMostRequested ==
  \A key \in DOMAIN gen.actual_allocations :
    \A component \in Components :
      Achieved(gen.actual_allocations[key], component) <= Req(CourseOf(key), component)

\* C8: whenever the achieved count recorded for a component is below the
\* requested count, a shortfall warning was recorded for it.
C8_ShortfallReported ==
  \A key \in DOMAIN gen.actual_allocations :
    \A component \in Components :
      Achieved(gen.actual_allocations[key], component) < Req(CourseOf(key), component) =>
        \E w \in warnings :
          /\ <<w[1], w[2], w[3], w[4]>> = key
          /\ w[5] = component

\* C9: the global availability check rejects a request exactly when the same
\* department in the same session already occupies a requested cell; this
\* holds for every department, CSE-A and CSE-B included.
C9_GlobalCheckRejectsOwnCells ==
  \A k \in DOMAIN gen.semester_global_slots :
    \A department \in Range(DEPARTMENTS), session \in {PRE_MID, POST_MID} :
      \A day \in Days, slot \in Slots :
        IsTimeSlotAvailableGlobal(gen.semester_global_slots, day, <<slot>>, department,
                                  session, k[1])
          <=> <<day, slot>> \notin Get(gen.semester_global_slots,
                                       <<k[1], department, session>>, {})

\* C10: assignRoom for a Regular or Lab request never returns C004: no lab
\* room and no room of a non-combined course is C004, C004 is never logged
\* as an ordinary booking, and no request the regular tier can make next
\* is answered with C004.
C10_RegularAndLabNeverC004 ==
  /\ \A key \in DOMAIN gen.assigned_lab_rooms :
       \A x \in Range(gen.assigned_lab_rooms[key]) : Upper(x[3]) # "C004"
  /\ \A key \in DOMAIN gen.assigned_rooms :
       ~CourseOf(key).combined =>
         \A x \in Range(gen.assigned_rooms[key]) : Upper(x[3]) # "C004"
  /\ \A k \in DOMAIN gen.room_bookings :
       \A b \in Range(gen.room_bookings[k]) : Upper(b.room) # "C004"
  /\ pc = "regular" =>
       \A combo \in AvailableCombos(loc) :
         Upper(AssignRoom(gen, combo[1], combo[2], CurCourse.code, cur[2], cur[3], cur[1],
                          comp = "Lab", FALSE, CurCourse.students,
                          ComboSlots(combo, comp)).room) # "C004"

\* C10 witness: C004 is loaded, a regular room and a lab room have been
\* assigned, and C004 was unoccupied at a slot where the regular room was
\* taken.
C10_RegularAndLabAssignedBesideC004 ==
  /\ gen.c004_room # NoRoom
  /\ gen.assigned_lab_rooms # EmptyDict
  /\ \E key \in DOMAIN gen.assigned_rooms :
       /\ ~CourseOf(key).combined
       /\ \E x \in Range(gen.assigned_rooms[key]) :
            RoomAvailable(gen, key[1], x[1], <<x[2]>>, gen.c004_room.name)

\* C11: no room other than the combined-only room is ever assigned to a
\* course flagged combined, for its lectures, tutorials and labs alike.
C11_CombinedOnlyInC004 ==
  \A key \in DOMAIN gen.assigned_rooms \cup DOMAIN gen.assigned_lab_rooms :
    CourseOf(key).combined =>
      \A x \in Range(Get(gen.assigned_rooms, key, <<>>))
                 \cup Range(Get(gen.assigned_lab_rooms, key, <<>>)) :
        Upper(x[3]) = "C004"

(***************************************************************************)
(* SeatingAllocator: _generate_seating_for_room_with_students              *)
(***************************************************************************)
\* Longest student list whose every shuffle is explored.
MaxStudents == 4
\* Size of the two large classes, seated in the given and the reverse order.
BigClass == 50

\* An entry of the students list: roll number, semester and exam course.
Student(roll, sem, course) == [roll |-> roll, sem |-> sem, course |-> course]

\* Physical layout: 6 rows x 4 columns of benches, 2 seats each.
max_benches == 6 * 4
max_seats == 6 * 4 * 2

\* Benches for the declared capacity alone, without the physical layout.
NumBenchesOfCapacityOnly(capacity) ==
  (capacity \div 2) + (IF capacity % 2 = 1 THEN 1 ELSE 0)

\* Number of benches offered for a declared capacity.
NumBenches(capacity) ==
  LET actual_capacity == IF capacity < max_seats THEN capacity ELSE max_seats
      num_benches == (actual_capacity \div 2) + (IF actual_capacity % 2 = 1 THEN 1 ELSE 0)
  IN  IF num_benches < max_benches THEN num_benches ELSE max_benches

\* students.remove(student): the list without its first element equal to it.
RECURSIVE Remove(_, _)
Remove(s, x) ==
  IF s = <<>> THEN <<>>
  ELSE IF Head(s) = x THEN Tail(s)
  ELSE <<Head(s)>> \o Remove(Tail(s), x)

\* A search that looks at no later student.
NoCandidates(unassigned) == {}

\* Strategy 1: indices of later students of another semester.
OtherSemester(unassigned) ==
  {i \in 2..Len(unassigned) : unassigned[i].sem # unassigned[1].sem}

\* Later students of the same semester, whatever their course.
SameSemester(unassigned) ==
  {i \in 2..Len(unassigned) : unassigned[i].sem = unassigned[1].sem}

\* Strategy 2: indices of later students of the same semester whose course is
\* known and differs from the (known) course of the first student.
OtherCourse(unassigned) ==
  {i \in 2..Len(unassigned) :
     /\ unassigned[i].sem = unassigned[1].sem
     /\ unassigned[1].course # "" /\ unassigned[i].course # ""
     /\ unassigned[1].course # unassigned[i].course}

\* The first index of a non-empty set of indices (the loops break at it).
First(S) == CHOOSE i \in S : \A j \in S : i <= j

\* _can_sit_together
CanSitTogether(student1, student2) ==
  IF student1.sem # student2.sem THEN TRUE
  ELSE IF student1.course = "" \/ student2.course = "" THEN FALSE
  ELSE student1.course # student2.course

\* A bench row of the returned frame; COL2 is NoStudent when the seat is empty.
NoStudent == Student(0, 0, "")
Bench(bench_num, student1, student2) ==
  [Bench |-> bench_num, COL1 |-> student1, COL2 |-> student2]

\* Students the explored lists are drawn from.
StudentPool ==
  { Student(1, 1, "X"), Student(2, 1, "X"), Student(3, 1, "Y"),
    Student(4, 3, "X"), Student(5, 1, "") }

\* All orders of all subsets of the pool up to MaxStudents students.
RECURSIVE Orders(_, _)
Orders(S, n) ==
  IF n = 0 \/ S = {} THEN {<<>>}
  ELSE {<<>>} \cup UNION {{<<x>> \o t : t \in Orders(S \ {x}, n - 1)} : x \in S}

Reverse(s) == [i \in DOMAIN s |-> s[Len(s) + 1 - i]]
BigSame == [i \in 1..BigClass |-> Student(100 + i, 1, "X")]
BigMixed == [i \in 1..BigClass |-> Student(200 + i, IF i % 3 = 0 THEN 3 ELSE 1,
                                            IF i % 2 = 0 THEN "X" ELSE "Y")]
StudentLists ==
  Orders(StudentPool, MaxStudents) \cup {BigSame, BigMixed, Reverse(BigSame), Reverse(BigMixed)}

\* Declared room capacities explored (the exporter's default is 50).
Capacities == {0, 1, 3, 5, 47, 48, 50, 200}

\* The timetable generator is not running.
TimetableIdle ==
  /\ gen = NewGenerator(<<>>, <<>>)
  /\ schedules = EmptyDict
  /\ todo = <<>>
  /\ cur = NoBuild
  /\ pc = "idle"
  /\ ci = 0
  /\ comp = ""
  /\ loc = InitLoc
  /\ warnings = {}

timetable_vars == <<gen, schedules, todo, cur, pc, ci, comp, loc, warnings>>

\* Entry of the function, after the two shuffles: an empty list returns at
\* once, otherwise the pairing loop starts at bench 1.
SeatInit ==
  /\ TimetableIdle
  /\ exam = NoExam
  /\ \E students \in StudentLists, capacity \in Capacities :
       seating = [ pc |-> IF students = <<>> THEN "done" ELSE "loop",
                   capacity |-> capacity,
                   students |-> students,
                   unassigned |-> students,
                   seating_data |-> <<>>,
                   bench_num |-> 1,
                   num_benches |-> NumBenches(capacity) ]

\* The loop condition: a bench is left and a student is left.
SeatLoop ==
  /\ seating.pc = "loop"
  /\ seating.bench_num <= seating.num_benches
  /\ seating.unassigned # <<>>

\* The state after one bench was filled with student1 and student2.
Seated(student1, student2, next_pc) ==
  [seating EXCEPT
     !.seating_data = Append(@, Bench(seating.bench_num, student1, student2)),
     !.unassigned = IF student2 = NoStudent THEN Remove(@, student1)
                    ELSE Remove(Remove(@, student1), student2),
     !.bench_num = @ + 1,
     !.pc = next_pc]

\* Only one student is left: seated alone, the loop is left.
SeatLastStudent ==
  /\ SeatLoop
  /\ Len(seating.unassigned) = 1
  /\ seating' = Seated(seating.unassigned[1], NoStudent, "done")
  /\ UNCHANGED <<timetable_vars, exam>>

\* Strategy 1: the first later student of another semester shares the bench.
SeatWithOtherSemester ==
  /\ SeatLoop
  /\ Len(seating.unassigned) > 1
  /\ OtherSemester(seating.unassigned) # {}
  /\ seating' = Seated(seating.unassigned[1],
                       seating.unassigned[First(OtherSemester(seating.unassigned))], "loop")
  /\ UNCHANGED <<timetable_vars, exam>>

\* Strategy 2: the first later student of the same semester with another
\* course shares the bench.
SeatWithOtherCourse ==
  /\ SeatLoop
  /\ Len(seating.unassigned) > 1
  /\ OtherSemester(seating.unassigned) = {}
  /\ OtherCourse(seating.unassigned) # {}
  /\ seating' = Seated(seating.unassigned[1],
                       seating.unassigned[First(OtherCourse(seating.unassigned))], "loop")
  /\ UNCHANGED <<timetable_vars, exam>>

\* No compatible partner: the first student is seated alone.
SeatAlone ==
  /\ SeatLoop
  /\ Len(seating.unassigned) > 1
  /\ OtherSemester(seating.unassigned) = {}
  /\ OtherCourse(seating.unassigned) = {}
  /\ seating' = Seated(seating.unassigned[1], NoStudent, "loop")
  /\ UNCHANGED <<timetable_vars, exam>>

\* The loop ends: the benches are used up or every student is seated.
SeatReturn ==
  /\ seating.pc = "loop"
  /\ ~SeatLoop
  /\ seating' = [seating EXCEPT !.pc = "done"]
  /\ UNCHANGED <<timetable_vars, exam>>

SeatNext ==
  \/ SeatLastStudent
  \/ SeatWithOtherSemester
  \/ SeatWithOtherCourse
  \/ SeatAlone
  \/ SeatReturn

SeatSpec == SeatInit /\ [][SeatNext]_vars

\* C12: on every bench with both seats filled, the two students are not in
\* the same semester with the same exam course.
C12_BenchMatesDiffer ==
  seating.pc # "off" =>
    \A i \in DOMAIN seating.seating_data :
      LET b == seating.seating_data[i]
      IN  b.COL2 # NoStudent =>
            ~(b.COL1.sem = b.COL2.sem /\ b.COL1.course = b.COL2.course)

\* C12 witness: the allocator has returned a frame in which one bench holds
\* two students of different semesters and another holds two students of the
\* same semester with different courses, while students of one semester and
\* one course were candidates.
C12_BothStrategiesPaired ==
  /\ seating.pc = "done"
  /\ \E i \in DOMAIN seating.seating_data :
       /\ seating.seating_data[i].COL2 # NoStudent
       /\ seating.seating_data[i].COL1.sem # seating.seating_data[i].COL2.sem
  /\ \E i \in DOMAIN seating.seating_data :
       /\ seating.seating_data[i].COL2 # NoStudent
       /\ seating.seating_data[i].COL1.sem = seating.seating_data[i].COL2.sem
  /\ \E i, j \in DOMAIN seating.students :
       /\ i # j
       /\ seating.students[i].sem = seating.students[j].sem
       /\ seating.students[i].course = seating.students[j].course

\* C13: the seating of one room has at most 24 benches, numbered 1..k
\* without gaps, every bench holds one or two students, and a declared
\* capacity c below 48 limits the benches to ceil(c/2).
C13_BenchLayout ==
  seating.pc # "off" =>
    LET k == Len(seating.seating_data)
    IN  /\ k <= 24
        /\ \A i \in 1..k :
             /\ seating.seating_data[i].Bench = i
             /\ seating.seating_data[i].COL1 # NoStudent
             /\ seating.seating_data[i].COL1 # seating.seating_data[i].COL2
        /\ seating.capacity < 48 => 2 * k <= seating.capacity + 1

\* C13 witness: the allocator has returned with all 24 benches used for a
\* declared capacity above 48 while candidate students were left over.
C13_LayoutCapReached ==
  /\ seating.pc = "done"
  /\ seating.capacity > 48
  /\ Len(seating.seating_data) = 24
  /\ seating.unassigned # <<>>

(***************************************************************************)
(* ExamScheduler.schedule_exams                                            *)
(***************************************************************************)
\* Longest list whose every shuffle is explored; longer lists are explored
\* in their rotations.
MaxShuffle == 3

\* The exam calendar as the code writes it.
EXAM_DAYS == <<"Saturday", "Monday", "Tuesday", "Wednesday", "Thursday", "Friday", "Monday">>

Rotate(s, k) == [i \in DOMAIN s |-> s[((i - 1 + k) % Len(s)) + 1]]

\* Outcomes of random.shuffle explored for a list of distinct elements.
Shuffles(s) ==
  IF s = <<>> THEN {<<>>}
  ELSE IF Len(s) <= MaxShuffle
  THEN {t \in Orders(Range(s), Len(s)) : Len(t) = Len(s)}
  ELSE {Rotate(s, k) : k \in 0..(Len(s) - 1)}

\* Inputs explored: the departments in row order, their distinct course
\* codes, and the num_days argument (7 by default).
ExamInputs ==
  { [ num_days |-> 7, depts |-> <<"CSE-A", "DSAI">>,
      courses |-> [d \in {"CSE-A", "DSAI"} |->
                     IF d = "CSE-A" THEN <<"A1", "A2", "A3", "A4", "A5", "A6", "A7">>
                     ELSE <<"D1">>] ],
    [ num_days |-> 2, depts |-> <<"CSE-A", "DSAI", "ECE">>,
      courses |-> [d \in {"CSE-A", "DSAI", "ECE"} |->
                     IF d = "CSE-A" THEN <<"A1", "A2", "A3">>
                     ELSE IF d = "DSAI" THEN <<"D1", "D2">>
                     ELSE <<"E1">>] ],
    [ num_days |-> 7, depts |-> <<"ECE">>,
      courses |-> [d \in {"ECE"} |-> <<"E1", "E2">>] ],
    [ num_days |-> 3, depts |-> <<"CSE-A", "DSAI">>,
      courses |-> [d \in {"CSE-A", "DSAI"} |->
                     IF d = "CSE-A" THEN <<"A1", "A2", "A3", "A4", "A5", "A6">>
                     ELSE <<"D1", "D2", "D3", "D4">>] ],
    [ num_days |-> 7, depts |-> <<"CSE-A">>,
      courses |-> [d \in {"CSE-A"} |->
                     <<"A1", "A2", "A3", "A4", "A5", "A6", "A7", "A8", "A9", "A10", "A11",
                       "A12", "A13", "A14", "A15", "A16">>] ] }

\* exam_days[:num_days]
ExamDays(num_days) == Prefix(EXAM_DAYS, num_days)

\* {day: [] for day in exam_days}: one key per distinct day name.
EmptySessions(num_days) == [day \in Range(ExamDays(num_days)) |-> <<>>]

\* The loop "for dept in fn_depts" / "for dept in an_depts" of one day: a
\* department with a course left contributes its next course.
RECURSIVE AssignDepartments(_, _, _, _)
AssignDepartments(st, depts, day, courses_by_dept) ==
  IF depts = <<>> THEN st
  ELSE LET dept == Head(depts)
           idx == st.dept_indices[dept]
           nxt == IF idx >= Len(courses_by_dept[dept]) THEN st
                  ELSE [ dept_indices |-> [st.dept_indices EXCEPT ![dept] = idx + 1],
                         session |-> [st.session EXCEPT
                                        ![day] = Append(@, courses_by_dept[dept][idx + 1])] ]
       IN  AssignDepartments(nxt, Tail(depts), day, courses_by_dept)

RemainingCoursesButOne(courses, idx) == SubSeq(courses, idx + 2, Len(courses))

\* courses_by_dept[dept][dept_indices[dept]:]
RemainingCourses(courses, idx) == SubSeq(courses, idx + 1, Len(courses))

\* (dept, course) for every leftover course, in dictionary order.
RECURSIVE AllRemaining(_, _, _)
AllRemaining(depts, courses_by_dept, dept_indices) ==
  IF depts = <<>> THEN <<>>
  ELSE LET dept == Head(depts)
           rem == RemainingCourses(courses_by_dept[dept], dept_indices[dept])
       IN  [i \in DOMAIN rem |-> <<dept, rem[i]>>]
             \o AllRemaining(Tail(depts), courses_by_dept, dept_indices)

\* Leftovers from position idx on: day idx mod len(exam_days), FN for an
\* even idx and AN for an odd one (idx counts from 0).
RECURSIVE Distribute(_, _, _, _)
Distribute(st, all_remaining, idx, exam_days) ==
  IF all_remaining = <<>> THEN st
  ELSE LET day == exam_days[(idx % Len(exam_days)) + 1]
           course == Head(all_remaining)[2]
           nxt == IF idx % 2 = 0
                  THEN [st EXCEPT !.fn_schedule[day] = Append(@, course)]
                  ELSE [st EXCEPT !.an_schedule[day] = Append(@, course)]
       IN  Distribute(nxt, Tail(all_remaining), idx + 1, exam_days)

\* The states schedule_exams can be in after the courses are grouped by
\* department and each department's list is shuffled.
ExamStarts(inp) ==
  { [ pc |-> "days",
      depts |-> inp.depts,
      input |-> inp.courses,
      courses_by_dept |-> courses_by_dept,
      exam_days |-> ExamDays(inp.num_days),
      day_idx |-> 0,
      fn_schedule |-> EmptySessions(inp.num_days),
      an_schedule |-> EmptySessions(inp.num_days),
      dept_indices |-> [d \in DOMAIN inp.courses |-> 0],
      leftovers |-> <<>> ] :
    courses_by_dept \in
      {f \in [DOMAIN inp.courses -> UNION {Shuffles(inp.courses[d]) : d \in DOMAIN inp.courses}] :
         \A d \in DOMAIN inp.courses : f[d] \in Shuffles(inp.courses[d])} }

\* Entry of schedule_exams.
ExamInit ==
  /\ TimetableIdle
  /\ seating = NoSeating
  /\ \E inp \in ExamInputs : exam \in ExamStarts(inp)

\* One iteration of "for day_idx, day in enumerate(exam_days)".
ExamDay ==
  /\ exam.pc = "days"
  /\ exam.day_idx < Len(exam.exam_days)
  /\ \E dept_list \in Shuffles(exam.depts) :
       LET day == exam.exam_days[exam.day_idx + 1]
           num_depts == Len(dept_list)
           fn_depts == IF num_depts > 1 THEN Prefix(dept_list, num_depts \div 2) ELSE dept_list
           an_depts == IF num_depts > 1
                       THEN SubSeq(dept_list, (num_depts \div 2) + 1, num_depts) ELSE <<>>
           fn == AssignDepartments([dept_indices |-> exam.dept_indices, session |-> exam.fn_schedule],
                                   fn_depts, day, exam.courses_by_dept)
           an == AssignDepartments([dept_indices |-> fn.dept_indices, session |-> exam.an_schedule],
                                   an_depts, day, exam.courses_by_dept)
       IN  exam' = [exam EXCEPT !.day_idx = @ + 1,
                                !.fn_schedule = fn.session,
                                !.an_schedule = an.session,
                                !.dept_indices = an.dept_indices]
  /\ UNCHANGED <<timetable_vars, seating>>

\* After the last day: the leftover courses are shuffled and spread over the
\* days and sessions, and the two frames are returned.
ExamLeftovers ==
  /\ exam.pc = "days"
  /\ exam.day_idx = Len(exam.exam_days)
  /\ \E all_remaining \in Shuffles(AllRemaining(exam.depts, exam.courses_by_dept, exam.dept_indices)) :
       LET st == Distribute(exam, all_remaining, 0, exam.exam_days)
       IN  exam' = [st EXCEPT !.pc = "done", !.leftovers = all_remaining]
  /\ UNCHANGED <<timetable_vars, seating>>

ExamNext ==
  \/ ExamDay
  \/ ExamLeftovers

ExamSpec == ExamInit /\ [][ExamNext]_vars

\* The courses a department placed in the day loop.
FirstPass(dept) == Range(Prefix(exam.courses_by_dept[dept], exam.dept_indices[dept]))

\* C14: on every day of the calendar no department has more than one
\* first-pass course in the union of the day's FN and AN cells.
C14_OneFirstPassCoursePerDepartmentPerDay ==
  exam.pc # "off" =>
    \A day \in DOMAIN exam.fn_schedule : \A dept \in Range(exam.depts) :
      Cardinality(FirstPass(dept)
                    \cap (Range(exam.fn_schedule[day]) \cup Range(exam.an_schedule[day]))) <= 1

\* The cells of the two returned frames that hold a course: <<day, session>>.
CellsOf(course) ==
  {<<day, "FN">> : day \in {d \in DOMAIN exam.fn_schedule : InSeq(course, exam.fn_schedule[d])}}
    \cup {<<day, "AN">> : day \in {d \in DOMAIN exam.an_schedule : InSeq(course, exam.an_schedule[d])}}

\* How often a course occurs in the returned frames.
Occurrences(course) ==
  LET count(s) == Cardinality({i \in DOMAIN s : s[i] = course})
      days == DOMAIN exam.fn_schedule
      RECURSIVE sum(_)
      sum(S) == IF S = {} THEN 0
                ELSE LET d == CHOOSE x \in S : TRUE
                     IN  count(exam.fn_schedule[d]) + count(exam.an_schedule[d]) + sum(S \ {d})
  IN  sum(days)

InputCourses == UNION {Range(exam.input[d]) : d \in DOMAIN exam.input}

\* C15: in the returned calendar every input course code appears in exactly
\* one (day, session) cell, exactly once, and nothing else appears.
C15_EveryCourseInExactlyOneCell ==
  exam.pc = "done" =>
    /\ \A course \in InputCourses :
         Cardinality(CellsOf(course)) = 1 /\ Occurrences(course) = 1
    /\ \A day \in DOMAIN exam.fn_schedule :
         Range(exam.fn_schedule[day]) \cup Range(exam.an_schedule[day]) \subseteq InputCourses

\* A returned calendar whose leftover pass wrapped around the days and put
\* courses into both sessions.
C15_LeftoversDistributed ==
  /\ exam.pc = "done"
  /\ Len(exam.leftovers) > Len(exam.exam_days)
  /\ \E day \in DOMAIN exam.fn_schedule :
       Len(exam.fn_schedule[day]) >= 2 /\ Len(exam.an_schedule[day]) >= 2

(***************************************************************************)
(* ScheduleGenerator.validate_room_conflicts                               *)
(***************************************************************************)
\* The conflict report computed from the booking log: one entry for every
\* (semester, day, slot) key whose list holds more than one booking.
validate_room_conflicts(room_bookings) ==
  { [ semester |-> k[1], day |-> k[2], slot |-> k[3],
      room |-> room_bookings[k][1].room,
      entries |-> [i \in DOMAIN room_bookings[k] |->
                     <<room_bookings[k][i].dept, room_bookings[k][i].course,
                       room_bookings[k][i].session>>] ] :
    k \in {x \in DOMAIN room_bookings : Len(room_bookings[x]) > 1} }

\* C16: the validator reports a (semester, day, slot) exactly when some one
\* room has two or more booking records there; bookings of different rooms
\* at the same (semester, day, slot) are not reported.
C16_ReportedIffRoomDoubleBooked ==
  \A k \in DOMAIN gen.room_bookings :
    (\E c \in validate_room_conflicts(gen.room_bookings) :
       <<c.semester, c.day, c.slot>> = k)
    <=> (\E i, j \in DOMAIN gen.room_bookings[k] :
           i # j /\ gen.room_bookings[k][i].room = gen.room_bookings[k][j].room)

(***************************************************************************)
(* Minor placements                                                        *)
(***************************************************************************)
\* (day, slot) cells of a grid that show the Minor.
MinorCells(schedule) == {c \in DOMAIN schedule : schedule[c][1] = MINOR_SUBJECT}

\* (day, slot) cells covered by a list of (day, start) minor placements.
PlacementCells(assigned) ==
  UNION {{<<assigned[i][1], x>> : x \in Range(GetConsecutiveSlots(assigned[i][2], MINOR_DURATION))} :
           i \in DOMAIN assigned}

\* C17: for a semester other than the first, once the minor placements are
\* stored they never change, there are at most MINOR_CLASSES_PER_WEEK of
\* them, they do not overlap and lie inside the minor window, and every
\* grid of that semester built afterwards shows the Minor at exactly the
\* cells of the stored placements.
C17_MinorChosenOnceAndReused ==
  [][ \A semester_id \in (DOMAIN gen.semester_minor_slots) \ {1} :
        LET assigned == gen.semester_minor_slots[semester_id]
        IN  /\ semester_id \in DOMAIN gen'.semester_minor_slots
            /\ gen'.semester_minor_slots[semester_id] = assigned
            /\ Len(assigned) <= MINOR_CLASSES_PER_WEEK
            /\ Cardinality(PlacementCells(assigned)) = Len(assigned) * MINOR_DURATION
            /\ \A c \in PlacementCells(assigned) : InSeq(c[2], MINOR_SLOTS)
            /\ \A t \in DOMAIN schedules' :
                 t[1] = semester_id /\ t \notin DOMAIN schedules =>
                   MinorCells(schedules'[t]) = PlacementCells(assigned) ]_vars

\* C18: no grid of semester 1 contains a Minor cell, no minor slots are
\* recorded for semester 1, and no cell of the minor window is entered in
\* the global occupancy of a semester-1 department/session.
C18_NoMinorInSemesterOne ==
  /\ \A t \in DOMAIN schedules : t[1] = 1 => MinorCells(schedules[t]) = {}
  /\ 1 \notin DOMAIN gen.semester_minor_slots
  /\ \A key \in DOMAIN gen.semester_global_slots :
       key[1] = 1 => \A c \in gen.semester_global_slots[key] : ~InSeq(c[2], MINOR_SLOTS)

\* All builds of a semester-1 catalogue are finished and a grid holds a class.
C18_SemesterOneBuilt ==
  /\ Done
  /\ \E t \in DOMAIN schedules :
       /\ t[1] = 1
       /\ \E c \in DOMAIN schedules[t] : schedules[t][c] \notin {Free, LunchBreak}
  /\ \E key \in DOMAIN gen.semester_global_slots :
       key[1] = 1 /\ gen.semester_global_slots[key] # {}

\* C19: in every grid every lunch cell holds LunchBreak, and no lecture,
\* tutorial or lab of any course occupies a lunch slot or a slot of the
\* minor window.
C19_LunchAndMinorWindowKept ==
  \A t \in DOMAIN schedules : \A c \in DOMAIN schedules[t] :
    /\ InSeq(c[2], LUNCH_SLOTS) => schedules[t][c] = LunchBreak
    /\ (schedules[t][c] \notin {Free, LunchBreak} /\ schedules[t][c][1] # MINOR_SUBJECT)
         => (~InSeq(c[2], LUNCH_SLOTS) /\ ~InSeq(c[2], MINOR_SLOTS))

\* All builds are finished and a grid that shows the Minor also shows a
\* lecture that ends where the lunch break starts.
C19_LectureNextToLunch ==
  /\ Done
  /\ \E t \in DOMAIN schedules :
       /\ MinorCells(schedules[t]) # {}
       /\ \E c \in DOMAIN schedules[t] :
            /\ schedules[t][c][2] = "Lecture"
            /\ InSeq(c[2] + 1, LUNCH_SLOTS)

(***************************************************************************)
(* Scenario: two departments, one course of three weekly lectures each     *)
(***************************************************************************)
\* The generator is constructed on the scenario catalogue with the full
\* room catalogue, and the exporter requests the builds of semester 1.
ScenarioInit ==
  /\ gen = NewGenerator(ScenarioCourses, FullRooms)
  /\ todo = BuildOrder(<<1>>)
  /\ schedules = EmptyDict
  /\ cur = NoBuild
  /\ pc = "idle"
  /\ ci = 0
  /\ comp = ""
  /\ loc = InitLoc
  /\ warnings = {}
  /\ exam = NoExam
  /\ seating = NoSeating

\* The steps a catalogue of regular lecture-only courses can take.
ScenarioNext ==
  \/ StartBuild
  \/ BeginComponent
  \/ RegularAttempt
  \/ FinishCourse

ScenarioSpec == ScenarioInit /\ [][ScenarioNext]_vars

\* The lecture placements of a course in a grid: for every day the slots
\* that show a lecture of the course.
LectureDays(t, course_code) == {c[1] : c \in LectureCells(t, course_code)}

\* C20: after both builds each department's grid contains exactly three
\* lecture placements of its course (three days with LECTURE_DURATION
\* consecutive slots each, so no two placements overlap), none of them on
\* a lunch slot, and nothing else.
C20_ThreeLecturesEach ==
  Done =>
    \A i \in DOMAIN ScenarioCourses :
      LET c == ScenarioCourses[i]
          t == <<c.sem, c.dept, c.session>>
          cells == LectureCells(t, c.code)
      IN  /\ t \in DOMAIN schedules
          /\ Cardinality(cells) = 3 * LECTURE_DURATION
          /\ Cardinality(LectureDays(t, c.code)) = 3
          /\ \A day \in LectureDays(t, c.code) :
               \E start \in Slots :
                 {x[2] : x \in {y \in cells : y[1] = day}}
                   = Range(GetConsecutiveSlots(start, LECTURE_DURATION))
          /\ \A x \in cells : ~InSeq(x[2], LUNCH_SLOTS)
          /\ \A x \in DOMAIN schedules[t] :
               schedules[t][x] \in {Free, LunchBreak, <<c.code, "Lecture">>}

\* Both builds are finished and the two departments hold a lecture at the
\* same (day, slot), one of them ending where the lunch break starts.
C20_DepartmentsShareASlot ==
  /\ Done
  /\ ScenarioRun
  /\ \E x \in LectureCells(<<1, "DSAI", PRE_MID>>, "SD1") :
       /\ x \in LectureCells(<<1, "ECE", PRE_MID>>, "SE1")
       /\ InSeq(x[2] + 1, LUNCH_SLOTS)

(***************************************************************************)
(* One run: the seating generator and the exam timetable export            *)
(***************************************************************************)
\* Pre-Mid course tables explored for a whole run; both callers pass
\* num_days=7.
RunInputs ==
  { [ num_days |-> 7, depts |-> <<"ECE">>,
      courses |-> [d \in {"ECE"} |-> <<"E1", "E2">>] ],
    [ num_days |-> 7, depts |-> <<"CSE-A", "DSAI">>,
      courses |-> [d \in {"CSE-A", "DSAI"} |->
                     IF d = "CSE-A" THEN <<"A1", "A2">> ELSE <<"D1">>] ] }

\* The (day, session, course) keys read off two returned frames.
ExamScheduleKeys(fn_schedule, an_schedule) ==
  UNION {{<<day, "FN", c>> : c \in Range(fn_schedule[day])} : day \in DOMAIN fn_schedule}
    \cup UNION {{<<day, "AN", c>> : c \in Range(an_schedule[day])} : day \in DOMAIN an_schedule}

\* SeatingArrangementGenerator.__init__ calls schedule_exams.
RunInit ==
  /\ TimetableIdle
  /\ seating = NoSeating
  /\ \E inp \in RunInputs : exam \in ExamStarts(inp)

\* _get_exam_schedule stores the keys of the frames it was returned; then
\* export_exam_timetable calls schedule_exams on the same course table.
GetExamSchedule ==
  /\ exam.pc = "done"
  /\ seating = NoSeating
  /\ seating' = [ pc |-> "constructed",
                  exam_schedule |-> ExamScheduleKeys(exam.fn_schedule, exam.an_schedule) ]
  /\ exam' \in ExamStarts([ num_days |-> Len(exam.exam_days), depts |-> exam.depts,
                            courses |-> exam.input ])
  /\ UNCHANGED timetable_vars

RunNext ==
  \/ ExamDay
  \/ ExamLeftovers
  \/ GetExamSchedule

RunSpec == RunInit /\ [][RunNext]_vars

\* C21: the (day, session) -> courses assignment the seating allocator
\* selects students by is the assignment exported as the exam timetable.
C21_SeatingUsesExportedAssignment ==
  (seating.pc = "constructed" /\ exam.pc = "done") =>
    seating.exam_schedule = ExamScheduleKeys(exam.fn_schedule, exam.an_schedule)

(***************************************************************************)
(* Shortfalls and the audit trail                                          *)
(***************************************************************************)
\* The audit-trail keys of the courses of a build.
AuditKeys(t) ==
  {<<t[1], t[2], t[3], SessionCourses(gen.dfs, t)[i].code>> :
     i \in DOMAIN SessionCourses(gen.dfs, t)}

\* C22: a step that reports a shortfall of a component leaves the build
\* running with the next component or the end of the course, and once a
\* build has returned every course of its (semester, department, session)
\* has an audit record with its lecture, tutorial and lab counts, whether
\* it was combined, and the first room and lab room assigned to it.
C22_ShortfallIsLocal ==
  [][ /\ warnings' # warnings =>
           (cur' = cur /\ ci' = ci /\ pc' \in {"comp", "course_end"})
      /\ \A t \in DOMAIN schedules' :
           (t # cur' /\ SessionCourses(gen.dfs, t) # <<>>) =>
             \A key \in AuditKeys(t) :
               /\ key \in DOMAIN gen'.actual_allocations
               /\ LET alloc == gen'.actual_allocations[key]
                      ar == Get(gen'.assigned_rooms, key, <<>>)
                      alr == Get(gen'.assigned_lab_rooms, key, <<>>)
                  IN  /\ \A component \in Components : Achieved(alloc, component) \in Nat
                      /\ alloc.combined_class \in BOOLEAN
                      /\ alloc.room = (IF ar # <<>> THEN ar[1][3] ELSE "")
                      /\ alloc.lab_room = (IF alr # <<>> THEN alr[1][3] ELSE "") ]_vars

\* All builds have returned; a course ended its lectures short and its labs
\* were placed all the same.
C22_PlacedAfterShortfall ==
  /\ Done
  /\ \E w \in warnings :
       /\ w[5] = "Lecture"
       /\ <<w[1], w[2], w[3], w[4]>> \in DOMAIN gen.actual_allocations
       /\ gen.actual_allocations[<<w[1], w[2], w[3], w[4]>>].labs > 0

(***************************************************************************)
(* Acceptance in the regular tier                                          *)
(***************************************************************************)
\* The cells a step writes in the grid of the running build.
WrittenCells == {c \in DOMAIN Schedule : schedules'[cur][c] # Schedule[c]}

\* C23: every placement the regular tier accepts is written into cells that
\* were Free in the grid of the build and free in the global occupancy of
\* its department and session, and a room was assigned for exactly those
\* slots: the room is recorded for the day and start of the placement and
\* occupies every written slot.
C23_RegularPlacementFreeAndRoomed ==
  [][ (pc = "regular" /\ WrittenCells # {}) =>
        /\ \A c \in WrittenCells :
             /\ Schedule[c] = Free
             /\ c \notin Get(gen.semester_global_slots, cur, {})
        /\ LET before == Get(gen.assigned_rooms, AllocationKey, <<>>)
                            \o Get(gen.assigned_lab_rooms, AllocationKey, <<>>)
               after == Get(gen'.assigned_rooms, AllocationKey, <<>>)
                           \o Get(gen'.assigned_lab_rooms, AllocationKey, <<>>)
           IN  \E e \in Range(after) \ Range(before) :
                 \A c \in WrittenCells :
                   /\ c[1] = e[1] /\ c[2] >= e[2]
                   /\ e[3] \in Get(gen'.room_occupancy, <<cur[1], c[1], c[2]>>, {}) ]_vars

(***************************************************************************)
(* Fresh combined placements                                               *)
(***************************************************************************)
\* C24: a fresh combined placement is written only where every department
\* of the sharing group is free, in its own grid and in the global
\* occupancy, and the combined room is unoccupied; the (day, start) of the
\* placement is then stored under the group key.
C24_FreshCombinedWhereGroupFree ==
  [][ (pc = "comb_place" /\ WrittenCells # {}) =>
        LET depts == GroupDepartments(GetCombinedGroup(cur[2]))
            day == loc.combined_slots[1]
            start == loc.combined_slots[2]
            gk == GlobalCombinedKey(GetCombinedGroup(cur[2]), CurCourse.code, comp)
        IN  /\ \A c \in WrittenCells : \A i \in DOMAIN depts :
                 LET t == <<cur[1], depts[i], cur[3]>>
                 IN  /\ t \in DOMAIN schedules => schedules[t][c] = Free
                     /\ c \notin Get(gen.semester_global_slots, t, {})
            /\ \A c \in WrittenCells :
                 gen.c004_room.name \notin Get(gen.room_occupancy, <<cur[1], c[1], c[2]>>, {})
            /\ InSeq(<<day, start>>, Get(gen'.global_combined_course_slots, gk, <<>>)) ]_vars

(***************************************************************************)
(* Room occupancy and the booking log                                      *)
(***************************************************************************)
\* The room entries a step appends for the current course, lecture and
\* tutorial rooms and lab rooms together.
RoomsReturned ==
  LET tail(d1, d0) == SubSeq(Get(d1, AllocationKey, <<>>),
                             Len(Get(d0, AllocationKey, <<>>)) + 1,
                             Len(Get(d1, AllocationKey, <<>>)))
  IN  Range(tail(gen'.assigned_rooms, gen.assigned_rooms))
        \cup Range(tail(gen'.assigned_lab_rooms, gen.assigned_lab_rooms))

\* C25: when a room is returned for a placement, the room is in the room
\* occupancy of every slot of the placement on that day, and the booking
\* log gains exactly one record per slot, naming the room, the department,
\* the course and the session; no record is added when the room is the
\* shared combined-only room.
C25_ReturnedRoomOccupiedAndLogged ==
  [][ (pc \in {"regular", "combined", "comb_place"} /\ RoomsReturned # {}) =>
        LET seq(e) == Range(GetConsecutiveSlots(e[2], Dur(comp)))
            logged == {e \in RoomsReturned : Upper(e[3]) \notin gen.shared_rooms}
            b(e) == [room |-> e[3], dept |-> cur[2], course |-> CurCourse.code,
                     session |-> cur[3]]
        IN  /\ \A e \in RoomsReturned : \A s \in seq(e) :
                 e[3] \in Get(gen'.room_occupancy, <<cur[1], e[1], s>>, {})
            /\ \A k \in DOMAIN gen'.room_bookings :
                 LET old == Get(gen.room_bookings, k, <<>>)
                     new == gen'.room_bookings[k]
                     added == {e \in logged : k[1] = cur[1] /\ k[2] = e[1] /\ k[3] \in seq(e)}
                 IN  /\ Len(new) = Len(old) + Cardinality(added)
                     /\ SubSeq(new, 1, Len(old)) = old
                     /\ \A e \in added : new[Len(new)] = b(e)
            /\ \A e \in logged : \A s \in seq(e) :
                 <<cur[1], e[1], s>> \in DOMAIN gen'.room_bookings ]_vars

\* A lab room was returned and its bookings are in the log.
C25_LabRoomBooked ==
  \E key \in DOMAIN gen.assigned_lab_rooms :
    /\ gen.assigned_lab_rooms[key] # <<>>
    /\ \E k \in DOMAIN gen.room_bookings :
         \E i \in DOMAIN gen.room_bookings[k] :
           gen.room_bookings[k][i].room = gen.assigned_lab_rooms[key][1][3]

(***************************************************************************)
(* Room selection for labs and regular classes                             *)
(***************************************************************************)
\* The rooms a request of the running build may be given: software labs for
\* the CSE departments and DSAI, hardware labs for ECE, every lab otherwise;
\* for lectures and tutorials the classrooms that are neither labs nor the
\* combined-only room.
DepartmentPool ==
  IF comp = "Lab"
  THEN IF cur[2] \in {"CSE-A", "CSE-B", "CSE", "DSAI"} THEN Range(gen.software_lab_rooms)
       ELSE IF cur[2] = "ECE" THEN Range(gen.hardware_lab_rooms)
       ELSE Range(gen.lab_rooms)
  ELSE {r \in Range(gen.nonlab_rooms) : Upper(r.name) \notin gen.shared_rooms}

\* The rooms of the pool no placement occupies at any slot of combo.
Unoccupied(combo) ==
  {r \in DepartmentPool :
     \A s \in Range(GetConsecutiveSlots(combo[2], Dur(comp))) :
       r.name \notin Get(gen.room_occupancy, <<cur[1], combo[1], s>>, {})}

\* C26: a room returned to the regular tier belongs to the pool of the
\* department, was unoccupied at every slot of the placement, and is the
\* smallest room that holds the class, by name among equal capacities, or
\* the smallest unoccupied room when none holds it; a request whose slots
\* are free is refused only when every room of the pool is occupied.
C26_SmallestFittingPoolRoom ==
  [][ (pc = "regular" /\ ~(CurCourse.elective \/ CurCourse.minor)) =>
        /\ \A e \in RoomsReturned :
             LET free == Unoccupied(e)
                 fitting == {r \in free : r.cap >= CurCourse.students}
                 among == IF fitting # {} THEN fitting ELSE free
             IN  \E r \in among :
                   /\ r.name = e[3]
                   /\ \A q \in among : CapNameLeq(r, q)
        /\ (RoomsReturned = {} /\ AvailableCombos(loc) # {}) =>
             \E combo \in AvailableCombos(loc) :
               \/ Unoccupied(combo) = {}
               \/ \E s \in Range(GetConsecutiveSlots(combo[2], Dur(comp))) :
                    \/ Schedule[<<combo[1], s>>] # Free
                    \/ <<combo[1], s>> \in Get(gen.semester_global_slots, cur, {}) ]_vars

\* A class of 50 was given the first by name of two rooms of capacity 60
\* although a room of capacity 40 was free, and the lab of a class of 50
\* the first by name of two labs too small for it.
C26_FittingRoomAndFallback ==
  /\ Done
  /\ \E key \in DOMAIN gen.assigned_rooms :
       gen.assigned_rooms[key] # <<>> /\ gen.assigned_rooms[key][1][3] = "C101"
  /\ \E key \in DOMAIN gen.assigned_lab_rooms :
       gen.assigned_lab_rooms[key] # <<>> /\ gen.assigned_lab_rooms[key][1][3] = "L105"

(***************************************************************************)
(* Combined slots and the semester                                         *)
(***************************************************************************)
\* C27: combined slots are kept per semester: a fresh combined placement is
\* stored under the key of its semester, and a build reuses combined slots
\* only at placements stored for its own semester, so a build of another
\* semester with the same course code and group searches for itself.
C27_CombinedSlotsPerSemester ==
  [][ /\ (pc = "comb_place" /\ WrittenCells # {}) =>
           InSeq(loc.combined_slots,
                 Get(gen'.semester_combined_course_slots,
                     SemesterCombinedKey(cur[1], CurCourse.code, comp), <<>>))
      /\ (pc = "combined" /\ WrittenCells # {}) =>
           \A c \in WrittenCells :
             \E e \in Range(Get(gen.semester_combined_course_slots,
                                SemesterCombinedKey(cur[1], CurCourse.code, comp), <<>>)) :
               c[1] = e[1] /\ InSeq(c[2], GetConsecutiveSlots(e[2], Dur(comp))) ]_vars

(***************************************************************************)
(* The common elective slots of a semester                                 *)
(***************************************************************************)
\* The grid cells of the placements in a stored slot list.
CellsOfPlacements(assigned, duration) ==
  UNION {{<<e[1], s>> : s \in Range(GetConsecutiveSlots(e[2], duration))} : e \in Range(assigned)}

\* C28: the common elective slots of a semester, once written, are never
\* changed, and from then on every step that places a lecture of an elective
\* course of that semester writes it at the cells of those slots and nowhere
\* else, all of them holding the course afterwards.
C28_CommonElectiveSlotsFixed ==
  [][ /\ \A k \in DOMAIN gen.semester_elective_slots :
           k[2] = "ALL_ELECTIVES" =>
             /\ k \in DOMAIN gen'.semester_elective_slots
             /\ gen'.semester_elective_slots[k] = gen.semester_elective_slots[k]
      /\ ( /\ pc \in {"combined", "comb_place", "elective", "elec_search", "regular"}
           /\ CurCourse.elective /\ comp = "Lecture" /\ WrittenCells # {}
           /\ CommonElectiveKey(cur[1], comp) \in DOMAIN gen.semester_elective_slots ) =>
           LET common == CellsOfPlacements(
                           gen.semester_elective_slots[CommonElectiveKey(cur[1], comp)],
                           LECTURE_DURATION)
           IN  /\ WrittenCells \subseteq common
               /\ \A c \in common : schedules'[cur][c] = <<CurCourse.code, "Lecture">> ]_vars

(***************************************************************************)
(* Priority of combined and elective courses                               *)
(***************************************************************************)
\* C29: while a build is scheduling a course that is neither combined nor
\* elective, every combined or elective course of its (semester,
\* department, session) has been through all its components: its audit
\* record is written.
C29_PriorityCoursesFirst ==
  (pc \notin {"idle", "minor"} /\ ~(CurCourse.combined \/ CurCourse.elective)) =>
    \A i \in DOMAIN SessionCourses(gen.dfs, cur) :
      LET c == SessionCourses(gen.dfs, cur)[i]
      IN  (c.combined \/ c.elective) =>
            <<cur[1], cur[2], cur[3], c.code>> \in DOMAIN gen.actual_allocations

\* A regular course is being searched for while an elective listed after it
\* in the course table is already recorded.
C29_RegularAfterLaterListedElective ==
  /\ pc = "regular"
  /\ ~(CurCourse.combined \/ CurCourse.elective)
  /\ \E i, j \in DOMAIN SessionCourses(gen.dfs, cur) :
       /\ i < j
       /\ SessionCourses(gen.dfs, cur)[i] = CurCourse
       /\ SessionCourses(gen.dfs, cur)[j].elective
       /\ <<cur[1], cur[2], cur[3], SessionCourses(gen.dfs, cur)[j].code>>
            \in DOMAIN gen.actual_allocations

(***************************************************************************)
(* Preference for placements ending on the half hour                       *)
(***************************************************************************)
\* TRUE when the regular tier would accept combo in the current state: its
\* slots are free in the grid and in the global occupancy, and a room of
\* the pool is unoccupied if the course needs one.
CurrentlyValid(combo) ==
  LET slots == ComboSlots(combo, comp)
  IN  /\ IsTimeSlotAvailableLocal(Schedule, combo[1], slots)
      /\ IsTimeSlotAvailableGlobal(gen.semester_global_slots, combo[1], slots,
                                   cur[2], cur[3], cur[1])
      /\ (CurCourse.elective \/ CurCourse.minor \/ Unoccupied(combo) # {})

\* C30: the regular tier accepts a placement that does not end on the half
\* hour only when no combination ending on the half hour is valid among
\* the combinations it draws from.
C30_HalfHourEndPreferred ==
  [][ (pc = "regular" /\ WrittenCells # {}) =>
        LET last == CHOOSE s \in {c[2] : c \in WrittenCells} :
                      \A c \in WrittenCells : c[2] <= s
        IN  ~EndsAtThirty(<<last>>) =>
              ~\E combo \in AvailableCombos(loc) :
                 /\ EndsAtThirty(ComboSlots(combo, comp))
                 /\ CurrentlyValid(combo) ]_vars

(***************************************************************************)
(* Days already used by a component                                        *)
(***************************************************************************)
\* A department whose two lab courses come before a course with two
\* lectures a week in the course table.
CrowdedCourses ==
  << Course("LA1", "ECE", 1, PRE_MID, 0, 0, 1, FALSE, FALSE, 30),
     Course("LB1", "ECE", 1, PRE_MID, 0, 0, 1, FALSE, FALSE, 30),
     Course("RC1", "ECE", 1, PRE_MID, 2, 0, 0, FALSE, FALSE, 30) >>

CrowdedInit ==
  /\ gen = NewGenerator(CrowdedCourses, FullRooms)
  /\ todo = <<<<1, "ECE", PRE_MID>>>>
  /\ schedules = EmptyDict
  /\ cur = NoBuild
  /\ pc = "idle"
  /\ ci = 0
  /\ comp = ""
  /\ loc = InitLoc
  /\ warnings = {}
  /\ exam = NoExam
  /\ seating = NoSeating

CrowdedSpec == CrowdedInit /\ [][ScenarioNext]_vars

\* C31: the regular tier places an occurrence on a day the component
\* already uses only when no combination is left on another day, and a
\* used day is not forbidden: when the search ends short after a failed
\* attempt and no combination on an unused day is valid, no combination on
\* a used day is valid either.
C31_UsedDayNotForbidden ==
  [][ pc = "regular" =>
        /\ (WrittenCells # {} /\ \E c \in WrittenCells : c[1] \in loc.used_days) =>
             {x \in loc.all_combinations : x[1] \notin loc.used_days} = {}
        /\ (warnings' # warnings /\ schedules' = schedules) =>
             ( (\E x \in loc.all_combinations : x[1] \in loc.used_days /\ CurrentlyValid(x))
                 => \E x \in loc.all_combinations :
                      x[1] \notin loc.used_days /\ CurrentlyValid(x) ) ]_vars

(***************************************************************************)
(* The exam calendar of seven days                                         *)
(***************************************************************************)
\* C32: with seven exam days the FN and the AN assignment returned each
\* have seven day entries, so the courses of the second and of the seventh
\* exam day, both named Monday, lie in separate entries.
C32_SevenDayEntries ==
  (exam.pc = "done" /\ Len(exam.exam_days) = 7) =>
    /\ Cardinality(DOMAIN exam.fn_schedule) = 7
    /\ Cardinality(DOMAIN exam.an_schedule) = 7

(***************************************************************************)
(* Round-robin of the leftover courses                                     *)
(***************************************************************************)
\* C33: the i-th leftover course (i from 0, in shuffled order) lies in the
\* entry of exam day number i mod numDays, in FN for an even i and in AN
\* for an odd i, and the numbers of leftover courses in any two day entries
\* differ by at most one.
C33_LeftoversRoundRobin ==
  exam.pc = "done" =>
    LET n == Len(exam.exam_days)
        leftover(day) ==
          {i \in DOMAIN exam.leftovers :
             exam.leftovers[i][2] \in Range(exam.fn_schedule[day]) \cup Range(exam.an_schedule[day])}
    IN  /\ \A i \in DOMAIN exam.leftovers :
             LET day == exam.exam_days[((i - 1) % n) + 1]
             IN  IF (i - 1) % 2 = 0
                 THEN InSeq(exam.leftovers[i][2], exam.fn_schedule[day])
                 ELSE InSeq(exam.leftovers[i][2], exam.an_schedule[day])
        /\ \A d1, d2 \in DOMAIN exam.fn_schedule :
             Cardinality(leftover(d1)) <= Cardinality(leftover(d2)) + 1

(***************************************************************************)
(* Seating partner policy                                                  *)
(***************************************************************************)
\* C34: each bench is filled with the first unassigned student and, as the
\* partner, a remaining unassigned student of a different semester if one
\* exists; otherwise a remaining student of the same semester with a
\* different exam course if one exists; otherwise nobody.  Fifty students of
\* one semester and one exam course in a room of capacity 48 end on 24
\* benches with one student each.
C34_PartnerPolicy ==
  /\ [][ (seating.pc = "loop" /\ Len(seating'.seating_data) = Len(seating.seating_data) + 1) =>
           LET u == seating.unassigned
               b == seating'.seating_data[Len(seating'.seating_data)]
               rest == {u[i] : i \in 2..Len(u)}
               other_sem == {s \in rest : s.sem # u[1].sem}
               other_course == {s \in rest : /\ s.sem = u[1].sem
                                             /\ s.course # "" /\ u[1].course # ""
                                             /\ s.course # u[1].course}
           IN  /\ b.COL1 = u[1]
               /\ IF other_sem # {} THEN b.COL2 \in other_sem
                  ELSE IF other_course # {} THEN b.COL2 \in other_course
                  ELSE b.COL2 = NoStudent ]_vars
  /\ []( ( /\ seating.pc = "done"
           /\ Len(seating.students) = 50
           /\ seating.capacity = 48
           /\ \A i, j \in DOMAIN seating.students :
                /\ seating.students[i].sem = seating.students[j].sem
                /\ seating.students[i].course = seating.students[j].course )
         => /\ Len(seating.seating_data) = 24
            /\ \A i \in DOMAIN seating.seating_data :
                 seating.seating_data[i].COL2 = NoStudent )

\* C34 witness: the allocator has returned for fifty students of one
\* semester and one exam course and capacity 48: 24 benches hold one student
\* each and 26 students stay unassigned.
C34_FiftySeatedAlone ==
  /\ seating.pc = "done"
  /\ seating.students = BigSame
  /\ seating.capacity = 48
  /\ Len(seating.seating_data) = 24
  /\ \A i \in DOMAIN seating.seating_data : seating.seating_data[i].COL2 = NoStudent
  /\ Len(seating.unassigned) = 26

(***************************************************************************)
(* SeatingArrangementGenerator.generate_seating_arrangements               *)
(***************************************************************************)
\* _get_students_for_exam: the courses examined on (day, session) in the
\* order of exam_schedule, their students from the reverse index, each roll
\* number added once.
RECURSIVE AddStudents(_, _)
AddStudents(students, more) ==
  IF more = <<>> THEN students
  ELSE IF \E i \in DOMAIN students : students[i].roll = Head(more).roll
       THEN AddStudents(students, Tail(more))
       ELSE AddStudents(Append(students, Head(more)), Tail(more))

RECURSIVE GetStudentsForExam(_, _, _, _)
GetStudentsForExam(exam_schedule, index, day, session) ==
  IF exam_schedule = <<>> THEN <<>>
  ELSE LET key == exam_schedule[Len(exam_schedule)]
           before == GetStudentsForExam(Prefix(exam_schedule, Len(exam_schedule) - 1),
                                        index, day, session)
       IN  IF key[1] = day /\ key[2] = session
           THEN AddStudents(before, Get(index, key[3], <<>>))
           ELSE before

\* The pairing loop of _generate_seating_for_room_with_students from bench
\* bench_num on, as one function of the shuffled list.
RECURSIVE PairStudents(_, _, _)
PairStudents(unassigned, bench_num, num_benches) ==
  IF bench_num > num_benches \/ unassigned = <<>> THEN <<>>
  ELSE IF Len(unassigned) = 1 THEN <<Bench(bench_num, unassigned[1], NoStudent)>>
  ELSE LET student2 ==
             IF OtherSemester(unassigned) # {}
             THEN unassigned[First(OtherSemester(unassigned))]
             ELSE IF OtherCourse(unassigned) # {}
             THEN unassigned[First(OtherCourse(unassigned))]
             ELSE NoStudent
           rest == IF student2 = NoStudent THEN Remove(unassigned, unassigned[1])
                   ELSE Remove(Remove(unassigned, unassigned[1]), student2)
       IN  <<Bench(bench_num, unassigned[1], student2)>>
             \o PairStudents(rest, bench_num + 1, num_benches)

\* The (day, session) pairs in the order of the two loops.
DaySessions ==
  LET sessions == <<"FN", "AN">>
  IN  [i \in 1..(Len(EXAM_DAYS) * 2) |->
         <<EXAM_DAYS[((i - 1) \div 2) + 1], sessions[((i - 1) % 2) + 1]>>]

\* State after the students of every (day, session) were cached: the loop
\* over the rooms is at its first room and first (day, session).
PlanInit ==
  /\ TimetableIdle
  /\ exam = NoExam
  /\ \E exam_classrooms \in {<<"C101">>, <<"C101", "C102">>},
        exam_schedule \in
          { <<<<"Monday", "FN", "X">>, <<"Monday", "FN", "Y">>, <<"Tuesday", "AN", "Z">>>>,
            <<<<"Saturday", "AN", "Z">>, <<"Friday", "FN", "X">>>> } :
       LET index == [course \in {"X", "Y", "Z"} |->
                       IF course = "X" THEN <<Student(1, 1, "X"), Student(2, 1, "X")>>
                       ELSE IF course = "Y" THEN <<Student(1, 1, "Y"), Student(3, 3, "Y")>>
                       ELSE <<Student(4, 1, "Z")>>]
       IN  seating =
             [ pc |-> "rooms",
               exam_classrooms |-> exam_classrooms,
               classroom_capacities |-> [r \in {"C101"} |-> 3],
               students_cache |->
                 [k \in Range(DaySessions) |->
                    GetStudentsForExam(exam_schedule, index, k[1], k[2])],
               room |-> 1,
               slot |-> 1,
               sheets |-> EmptyDict ]

\* One pass of the inner loops: the cached list of the (day, session) is
\* shuffled in place, its copy is shuffled again and paired, and a non-empty
\* result is stored for the room under (day, session).
SeatRoomSession ==
  /\ seating.pc = "rooms"
  /\ seating.room <= Len(seating.exam_classrooms)
  /\ LET room_name == seating.exam_classrooms[seating.room]
         capacity == Get(seating.classroom_capacities, room_name, 50)
         key == DaySessions[seating.slot]
         last == seating.slot = Len(DaySessions)
     IN  \E students \in Shuffles(seating.students_cache[key]) :
         \E unassigned \in Shuffles(students) :
           LET seating_df == PairStudents(unassigned, 1, NumBenches(capacity))
               by_day_session == Get(seating.sheets, room_name, EmptyDict)
           IN  seating' =
                 [seating EXCEPT
                    !.students_cache[key] = students,
                    !.sheets = IF seating_df = <<>> THEN @
                               ELSE Put(@, room_name, Put(by_day_session, key, seating_df)),
                    !.slot = IF last THEN 1 ELSE @ + 1,
                    !.room = IF last THEN @ + 1 ELSE @]
  /\ UNCHANGED <<timetable_vars, exam>>

\* Every room was handled: the workbook is written.
SeatingWritten ==
  /\ seating.pc = "rooms"
  /\ seating.room > Len(seating.exam_classrooms)
  /\ seating' = [seating EXCEPT !.pc = "written"]
  /\ UNCHANGED <<timetable_vars, exam>>

PlanNext ==
  \/ SeatRoomSession
  \/ SeatingWritten

PlanSpec == PlanInit /\ [][PlanNext]_vars

\* C36: in the written seating plan, for each (day, session) no roll number
\* is seated in more than one exam room, and within one room no roll number
\* appears on more than one bench or twice on the same bench.
C36_StudentSeatedOnce ==
  seating.pc = "written" =>
    LET Rolls(b) == {b.COL1.roll} \cup (IF b.COL2 = NoStudent THEN {} ELSE {b.COL2.roll})
        SeatedIn(room_name, key) ==
          LET df == Get(Get(seating.sheets, room_name, EmptyDict), key, <<>>)
          IN  UNION {Rolls(df[i]) : i \in DOMAIN df}
    IN  \A key \in Range(DaySessions) :
          /\ \A r1, r2 \in Range(seating.exam_classrooms) :
               r1 # r2 => SeatedIn(r1, key) \cap SeatedIn(r2, key) = {}
          /\ \A r \in Range(seating.exam_classrooms) :
               LET df == Get(Get(seating.sheets, r, EmptyDict), key, <<>>)
               IN  /\ \A i \in DOMAIN df : df[i].COL2 = NoStudent \/ df[i].COL1.roll # df[i].COL2.roll
                   /\ \A i, j \in DOMAIN df : i # j => Rolls(df[i]) \cap Rolls(df[j]) = {}

(***************************************************************************)
(* Audit trail: the combined flag                                          *)
(***************************************************************************)
\* C35: an audit record marks its course as combined only if the course's
\* scheduled occurrences were placed by the combined tier: every room
\* assigned to the course is the combined-only room C004 and every grid cell
\* of the course lies in a synchronized slot recorded for its group.
C35_CombinedMarkMeansCombinedTier ==
  \A key \in DOMAIN gen.actual_allocations :
    LET t == <<key[1], key[2], key[3]>>
    IN  (gen.actual_allocations[key].combined_class /\ t \in DOMAIN schedules) =>
          /\ \A x \in Range(Get(gen.assigned_rooms, key, <<>>))
                        \cup Range(Get(gen.assigned_lab_rooms, key, <<>>)) :
               Upper(x[3]) = "C004"
          /\ \A cell \in Cells(t, key[4]) :
               <<cell[1], cell[2]>> \in
                 CellsOfPlacements(
                   Get(gen.global_combined_course_slots,
                       GlobalCombinedKey(GetCombinedGroup(key[2]), key[4], cell[3]), <<>>),
                   Dur(cell[3]))

(***************************************************************************)
(* Audit trail and grid                                                    *)
(***************************************************************************)
\* C37: after a build, for every course of the grid's (semester, department,
\* session) and every component, the number of grid cells showing that
\* component of the course equals the achieved count of the audit record
\* times the component's duration in slots.
C37_AuditAgreesWithGrid ==
  \A key \in DOMAIN gen.actual_allocations :
    LET t == <<key[1], key[2], key[3]>>
    IN  (t \in DOMAIN schedules /\ t # cur) =>
          \A component \in Components :
            Cardinality({x \in Cells(t, key[4]) : x[3] = component})
              = Achieved(gen.actual_allocations[key], component) * Dur(component)

(***************************************************************************)
(* Local and global occupancy                                              *)
(***************************************************************************)
\* C38: in every reachable state, every cell of a grid that holds a course
\* or the Minor is recorded in the global occupancy of the grid's semester
\* under its (department, session) key.
C38_LocalCellsRecordedGlobally ==
  \A t \in DOMAIN schedules :
    {c \in DOMAIN schedules[t] : schedules[t][c] \notin {Free, LunchBreak}}
      \subseteq Get(gen.semester_global_slots, t, {})

\* C38 witness: a build has finished whose grid shows the Minor and a lecture
\* of a course, both recorded in the global occupancy of its semester.
C38_MinorAndLectureRecorded ==
  /\ pc = "idle"
  /\ \E t \in DOMAIN schedules :
       /\ \E c \in DOMAIN schedules[t] :
            /\ schedules[t][c][1] = MINOR_SUBJECT
            /\ c \in Get(gen.semester_global_slots, t, {})
       /\ \E c \in DOMAIN schedules[t] :
            /\ schedules[t][c][2] = "Lecture"
            /\ c \in Get(gen.semester_global_slots, t, {})

(***************************************************************************)
(* _assign_room: a refusal leaves the room records alone                   *)
(***************************************************************************)
\* One classroom and one lab, no combined-only room: the rooms a course of
\* CSE-A took are all a course of DSAI could get.
RefusalInit ==
  /\ gen = NewGenerator(
             << Course("RL1", "CSE-A", 1, PRE_MID, 1, 0, 1, FALSE, FALSE, 30),
                Course("RD1", "DSAI", 1, PRE_MID, 1, 0, 0, FALSE, FALSE, 30) >>,
             << Room("C101", 60, "classroom"), Room("L105", 40, "software lab") >>)
  /\ todo = <<<<1, "CSE-A", PRE_MID>>, <<1, "DSAI", PRE_MID>>>>
  /\ schedules = EmptyDict
  /\ cur = NoBuild
  /\ pc = "idle"
  /\ ci = 0
  /\ comp = ""
  /\ loc = InitLoc
  /\ warnings = {}
  /\ exam = NoExam
  /\ seating = NoSeating

RefusalSpec == RefusalInit /\ [][ScenarioNext]_vars

\* C39: an _assign_room call that returns None changes nothing: the room
\* occupancy, the booking log and the per-course assigned-room records are
\* the same after the call as before it, for every kind of request
\* (Combined, Lab, Regular).  Stated for every state of the regular tier:
\* a request of any kind for the current course at any candidate placement.
C39_RefusalChangesNothing ==
  pc = "regular" =>
    \A combo \in loc.all_combinations, is_lab \in BOOLEAN, is_combined \in BOOLEAN :
      LET a == AssignRoom(gen, combo[1], combo[2], CurCourse.code, cur[2], cur[3], cur[1],
                          is_lab, is_combined, CurCourse.students, ComboSlots(combo, comp))
      IN  a.room = None =>
            /\ a.gen.room_occupancy = gen.room_occupancy
            /\ a.gen.room_bookings = gen.room_bookings
            /\ a.gen.room_usage = gen.room_usage
            /\ a.gen.assigned_rooms = gen.assigned_rooms
            /\ a.gen.assigned_lab_rooms = gen.assigned_lab_rooms

\* C39 witness: the regular tier is at a state where rooms are occupied and,
\* for the current course, a Combined, a Lab and a Regular request would each
\* be refused at some candidate placement.
C39_EveryKindRefused ==
  /\ pc = "regular"
  /\ \E k \in DOMAIN gen.room_occupancy : gen.room_occupancy[k] # {}
  /\ \A kind \in {<<FALSE, TRUE>>, <<TRUE, FALSE>>, <<FALSE, FALSE>>} :
       \E combo \in loc.all_combinations :
         AssignRoom(gen, combo[1], combo[2], CurCourse.code, cur[2], cur[3], cur[1],
                    kind[1], kind[2], CurCourse.students, ComboSlots(combo, comp)).room = None

====
